---- MODULE Spec2Model ----
(***************************************************************************)
(* State-machine model of the mathworld simulation kernel: WorldState,     *)
(* RelationGraph, UtilityAI, EventGenerator, Disease and the per-turn      *)
(* orchestrators.                                                          *)
(*                                                                         *)
(* Numbers.  The program computes in IEEE doubles; the model uses scaled   *)
(* integers.  Trust, fear, respect and every threshold compared with them  *)
(* are in hundredths (0.4 is 40, the clamp range [-1,1] is [-100,100]).    *)
(* Probabilities of the disease catalogue are in thousandths.              *)
(***************************************************************************)
EXTENDS Integers, Sequences, FiniteSets, TLC

\* ------------------------------------------------------------------ bounds
MaxWrites == 2     \* relation writes explored per behaviour of SpecRel
MaxTime == 3       \* advanceTime calls explored per behaviour
ShortImmunity == 2 \* immunityDuration of the catalogue entry whose immunity expires within MaxTime
MaxEconomyTicks == 5   \* Economy.update calls explored per behaviour
MaxEcosystemTicks == 4 \* Ecosystem.update calls explored per behaviour
MaxHunts == 1          \* hunt calls explored per behaviour
MaxCalendarDays == 366 \* advanceTime calls explored per behaviour of SpecCalendar
MaxEffects == 2        \* applyEffect calls explored per behaviour
MaxWeatherTicks == 9   \* Weather.update calls explored per behaviour
MaxEvents == 2         \* history length up to which the operations on it are explored

\* --------------------------------------------------------------- the world
Chars == {"a", "b", "c"}      \* ids of the characters added to the world
\* EntityId values: "ghost" names no character, "self" and "target" are the
\* symbolic targets of the catalogue's effects
Ids == Chars \cup {"ghost", "self", "target"}

VARIABLES
    \* ---- WorldState
    time,        \* _time
    characters,  \* _characters: id -> Character
    history,     \* _history: GameEvent[]
    globalState, \* _globalState
    edges,       \* _relations: RelationGraph.edges, insertion-ordered Map of Maps
    \* ---- observers of the relation graph
    clusters,    \* result of the latest getClusters call (NoResult after a write)
    lastQuery,   \* the latest graph query since the last write, and the graph before it
    nWrites,     \* number of relation writes performed so far (capped)
    written,     \* the pairs those writes addressed, and the pair of the latest one
    \* ---- Disease
    healthStatuses,  \* Disease.healthStatuses: id -> HealthStatus
    activeOutbreaks, \* Disease.activeOutbreaks
    enteredAt,       \* per individual: world time at which the present state was entered
    lastTransitions, \* per individual: the state changes made by the latest operation
    \* ---- UtilityAI
    utilityCall,     \* the latest calculateUtility call: its arguments and its UtilityResult
    selection,       \* the latest selectAction call: its arguments, the utilities, the choice
    lastCall,        \* the latest call of another operation: its arguments, the state before it, its result
    \* ---- EventGenerator and the turn that drives it
    orchestrator,    \* which caller runs the turns: GameCore, GameLoop or the analysis loop
    pc,              \* position in the orchestrator's turn; past the end between two turns
    turnLog,         \* the steps the current turn has run so far, in order
    recentEvents,    \* EventGenerator.recentEvents: ids of the triggers that just fired
    timers,          \* trigger ids with a pending setTimeout(..., 0) deletion
    firedPrev,       \* triggers fired by the generateEvents call before the latest one
    firedNow,        \* triggers fired by the latest generateEvents call
    blockedFor,      \* per trigger: consecutive generateEvents calls its marker has skipped it
    \* ---- the world's places and the simulators over them
    locations,       \* WorldState._locations, in insertion order
    markets,         \* Economy.markets: location id -> Market
    inflationRate,   \* Economy.inflationRate, in ten-thousandths
    economyLog,      \* the latest Economy.update: its updateSupplyDemand figures and result
    economyTicks,    \* number of Economy.update calls so far (capped)
    ecosystems,      \* Ecosystem.ecosystems: location id -> LocalEcosystem
    ecosystemLog,    \* the latest Ecosystem operation and the populations before it
    ecosystemTicks,  \* number of Ecosystem operations so far (capped)
    globalWeather,     \* Weather.globalWeather
    weatherByLocation, \* Weather.weatherByLocation: location id -> WeatherState
    weatherLog,        \* the Weather.update calls so far, and the age of the present regime
    \* ---- FeedbackLoop
    accumulatedChanges, \* FeedbackLoop.accumulatedChanges: key -> AccumulatedChange
    \* ---- the game around the world
    player,          \* the player's Character for LevelSystem: level, experience, stat points
    peers,           \* per browser: its MultiplayerManager (hostId, players, connections)
    channels,        \* per connection from -> to: the messages sent and not yet read
    saved,           \* the save file: the SaveData written by the latest saveGame
    combat           \* the Combat object: state, combatants, turnOrder, currentTurn, log

worldVars == <<time, characters, history, globalState>>
relVars == <<edges, clusters, lastQuery, nWrites, written>>
diseaseVars == <<healthStatuses, activeOutbreaks, enteredAt, lastTransitions>>
eventVars == <<recentEvents, timers, firedPrev, firedNow, blockedFor>>
turnVars == <<orchestrator, pc, turnLog, recentEvents, timers, firedPrev, firedNow, blockedFor>>
utilityVars == <<utilityCall, selection, lastCall>>
economyVars == <<markets, inflationRate, economyLog, economyTicks>>
ecosystemVars == <<ecosystems, ecosystemLog, ecosystemTicks>>
weatherVars == <<globalWeather, weatherByLocation, weatherLog>>
feedbackVars == <<accumulatedChanges>>
roomVars == <<peers, channels>>
gameVars == <<player, roomVars, saved, combat>>
simVars == <<locations, markets, inflationRate, economyLog, economyTicks,
            ecosystems, ecosystemLog, ecosystemTicks,
            globalWeather, weatherByLocation, weatherLog, accumulatedChanges, gameVars>>
vars == <<time, characters, history, globalState, edges, clusters, lastQuery,
          nWrites, written,
          healthStatuses, activeOutbreaks, enteredAt, lastTransitions, utilityCall, selection,
          lastCall,
          orchestrator, pc, turnLog, recentEvents, timers, firedPrev, firedNow, blockedFor,
          locations, markets, inflationRate, economyLog, economyTicks,
          ecosystems, ecosystemLog, ecosystemTicks,
          globalWeather, weatherByLocation, weatherLog, accumulatedChanges, gameVars>>

\* ------------------------------------------------------------ small helpers
Max(x, y) == IF x >= y THEN x ELSE y
Min(x, y) == IF x <= y THEN x ELSE y

\* Math.max(lo, Math.min(hi, v))
clamp(v, lo, hi) == Max(lo, Min(hi, v))

SeqToSet(s) == {s[i] : i \in 1..Len(s)}

Contains(s, x) == \E i \in 1..Len(s) : s[i] = x

\* Set / Map-key insertion: a key keeps its first insertion position
AddOrdered(s, x) == IF Contains(s, x) THEN s ELSE Append(s, x)

RECURSIVE AddAllOrdered(_, _)
AddAllOrdered(s, xs) ==
    IF xs = <<>> THEN s ELSE AddAllOrdered(AddOrdered(s, Head(xs)), Tail(xs))

\* ============================================================ RelationGraph
DEFAULT_RELATION ==
    [trust |-> 0, fear |-> 0, respect |-> 0, debt |-> 0,
     secretShared |-> FALSE, history |-> <<>>]

\* edges = new Map(): no source key, no inner map, no relation.
\* shared is the content of the one array DEFAULT_RELATION.history; alias
\* holds the pairs whose relation.history is that very array.
EmptyGraph ==
    [from |-> <<>>, to |-> [c \in Ids |-> <<>>], rel |-> <<>>,
     alias |-> {}, shared |-> <<>>]

HasEdge(g, f, t) == Contains(g.to[f], t)

\* a getRelation whose new relation starts with some trust
EnsureRelationTrusting(g, f, t) ==
    IF HasEdge(g, f, t) THEN g
    ELSE [from   |-> AddOrdered(g.from, f),
          to     |-> [g.to EXCEPT ![f] = Append(@, t)],
          rel    |-> (<<f, t>> :> [DEFAULT_RELATION EXCEPT !.trust = 10]) @@ g.rel,
          alias  |-> g.alias \cup {<<f, t>>},
          shared |-> g.shared]

\* getRelation's write half: create the outer and the inner entry when
\* absent. The new relation is { ...DEFAULT_RELATION }, a shallow copy: its
\* history is the array of DEFAULT_RELATION itself.
EnsureRelation(g, f, t) ==
    IF HasEdge(g, f, t) THEN g
    ELSE [from   |-> AddOrdered(g.from, f),
          to     |-> [g.to EXCEPT ![f] = Append(@, t)],
          rel    |-> (<<f, t>> :> [DEFAULT_RELATION EXCEPT !.history = g.shared]) @@ g.rel,
          alias  |-> g.alias \cup {<<f, t>>},
          shared |-> g.shared]

\* getRelation's read half, on a graph where the edge exists
RelationOf(g, f, t) == g.rel[<<f, t>>]

SetRelation(g, f, t, r) == [g EXCEPT !.rel = (<<f, t>> :> r) @@ g.rel]

\* a write path that forgets the clamp on trust
ClampRelationNoTrust(r) ==
    [r EXCEPT !.fear    = clamp(r.fear, 0, 100),
              !.respect = clamp(r.respect, -100, 100)]

\* the three clamps every write ends with
ClampRelation(r) ==
    [r EXCEPT !.trust   = clamp(r.trust, -100, 100),
              !.fear    = clamp(r.fear, 0, 100),
              !.respect = clamp(r.respect, -100, 100)]

\* updateRelation(from, to, updates): Object.assign, then clamp.
\* updates is a record holding a subset of the Relation fields.
AssignFields(r, updates) ==
    [k \in DOMAIN r |-> IF k \in DOMAIN updates THEN updates[k] ELSE r[k]]

AssignAndClamp(g, f, t, updates) ==
    LET g1 == EnsureRelation(g, f, t)
    IN  SetRelation(g1, f, t, ClampRelation(AssignFields(RelationOf(g1, f, t), updates)))

\* an updates object that carries a history gives the relation that array
updateRelation(g, f, t, updates) ==
    IF "history" \in DOMAIN updates
    THEN [AssignAndClamp(g, f, t, updates) EXCEPT !.alias = @ \ {<<f, t>>}]
    ELSE AssignAndClamp(g, f, t, updates)

\* modifyRelation(from, to, delta): add the numeric deltas, then clamp
AddFields(r, delta) ==
    [k \in DOMAIN r |->
        IF k \in DOMAIN delta
        THEN (IF k = "secretShared" THEN delta[k] ELSE r[k] + delta[k])
        ELSE r[k]]

modifyRelation(g, f, t, delta) ==
    LET g1 == EnsureRelation(g, f, t)
    IN  SetRelation(g1, f, t, ClampRelation(AddFields(RelationOf(g1, f, t), delta)))

\* relation.history.push(eventId) on a relation that has an array of its own
PushOwn(g, f, t, eventId) ==
    SetRelation(g, f, t, [RelationOf(g, f, t) EXCEPT !.history = Append(@, eventId)])

\* relation.history.push(eventId) on the array of DEFAULT_RELATION: the
\* event shows in every relation that holds that array, and in every
\* relation created afterwards
PushShared(g, eventId) ==
    [g EXCEPT !.shared = Append(@, eventId),
              !.rel = [p \in DOMAIN @ |->
                          IF p \in g.alias
                          THEN [@[p] EXCEPT !.history = Append(g.shared, eventId)]
                          ELSE @[p]]]

\* addHistory(from, to, eventId)
addHistory(g, f, t, eventId) ==
    IF <<f, t>> \in EnsureRelation(g, f, t).alias
    THEN PushShared(EnsureRelation(g, f, t), eventId)
    ELSE PushOwn(EnsureRelation(g, f, t), f, t, eventId)

\* a getFriends that asks for trust above 0.6
getFriendsClose(g, id) ==
    SelectSeq(g.to[id], LAMBDA t : RelationOf(g, id, t).trust > 60)

\* getFriends(id): targets of id's outgoing edges with trust > 0, in Map order
getFriends(g, id) ==
    SelectSeq(g.to[id], LAMBDA t : RelationOf(g, id, t).trust > 0)

\* getEnemies(id): trust < -0.3
getEnemies(g, id) ==
    SelectSeq(g.to[id], LAMBDA t : RelationOf(g, id, t).trust < -30)

\* the node collection loop shared by getClusters and getMostInfluential
RECURSIVE CollectNodes(_, _, _)
CollectNodes(g, froms, acc) ==
    IF froms = <<>> THEN acc
    ELSE CollectNodes(g, Tail(froms),
                      AddAllOrdered(AddOrdered(acc, Head(froms)), g.to[Head(froms)]))

AllNodes(g) == CollectNodes(g, g.from, <<>>)

\* the inner "for (const friend of friends)" loop of getClusters: reads the
\* reverse relation through getRelation (which creates it when absent) and
\* queues the friend when that reverse trust exceeds the threshold
RECURSIVE VisitFriends(_, _, _, _, _, _)
VisitFriends(g, current, friends, threshold, visited, queue) ==
    IF friends = <<>> THEN [g |-> g, queue |-> queue]
    ELSE LET friend == Head(friends)
             g1     == EnsureRelation(g, friend, current)
             q1     == IF RelationOf(g1, friend, current).trust > threshold
                          /\ friend \notin visited
                       THEN Append(queue, friend) ELSE queue
         IN  VisitFriends(g1, current, Tail(friends), threshold, visited, q1)

\* the "while (queue.length > 0)" loop of getClusters
RECURSIVE ClusterBFS(_, _, _, _, _)
ClusterBFS(g, queue, threshold, visited, cluster) ==
    IF queue = <<>> THEN [g |-> g, visited |-> visited, cluster |-> cluster]
    ELSE LET current == Head(queue)
         IN  IF current \in visited
             THEN ClusterBFS(g, Tail(queue), threshold, visited, cluster)
             ELSE LET v1 == visited \cup {current}
                      r  == VisitFriends(g, current, getFriends(g, current),
                                         threshold, v1, Tail(queue))
                  IN  ClusterBFS(r.g, r.queue, threshold, v1, Append(cluster, current))

\* the node loop of getClusters keeping every cluster, single nodes included
RECURSIVE ClusterLoopAll(_, _, _, _, _)
ClusterLoopAll(g, nodes, threshold, visited, acc) ==
    IF nodes = <<>> THEN [g |-> g, groups |-> acc]
    ELSE IF Head(nodes) \in visited
         THEN ClusterLoopAll(g, Tail(nodes), threshold, visited, acc)
         ELSE LET r == ClusterBFS(g, <<Head(nodes)>>, threshold, visited, <<>>)
              IN  ClusterLoopAll(r.g, Tail(nodes), threshold, r.visited,
                                 Append(acc, r.cluster))

\* the "for (const node of allNodes)" loop of getClusters
RECURSIVE ClusterLoop(_, _, _, _, _)
ClusterLoop(g, nodes, threshold, visited, acc) ==
    IF nodes = <<>> THEN [g |-> g, groups |-> acc]
    ELSE IF Head(nodes) \in visited
         THEN ClusterLoop(g, Tail(nodes), threshold, visited, acc)
         ELSE LET r == ClusterBFS(g, <<Head(nodes)>>, threshold, visited, <<>>)
              IN  ClusterLoop(r.g, Tail(nodes), threshold, r.visited,
                              IF Len(r.cluster) > 1 THEN Append(acc, r.cluster) ELSE acc)

\* getClusters(threshold): the groups, and the graph as the call leaves it
getClusters(g, threshold) == ClusterLoop(g, AllNodes(g), threshold, {}, <<>>)

\* ================================================================ WorldState
\* createCharacter(options): DEFAULT_PERSONALITY, DEFAULT_EMOTION and the
\* resources / power defaults, overridden by the options given
DEFAULT_PERSONALITY ==
    [ambition |-> 50, loyalty |-> 50, morality |-> 50, courage |-> 50, cunning |-> 50]

\* emotions are in ten-thousandths
DEFAULT_EMOTION ==
    [trust |-> 5000, fear |-> 0, anger |-> 0, joy |-> 3000, despair |-> 0]

createCharacter(options) ==
    [location    |-> options.location,
     personality |-> IF "personality" \in DOMAIN options
                     THEN AssignFields(DEFAULT_PERSONALITY, options.personality)
                     ELSE DEFAULT_PERSONALITY,
     emotion     |-> IF "emotion" \in DOMAIN options
                     THEN AssignFields(DEFAULT_EMOTION, options.emotion)
                     ELSE DEFAULT_EMOTION,
     resources   |-> IF "resources" \in DOMAIN options THEN options.resources ELSE 100,
     power       |-> IF "power" \in DOMAIN options THEN options.power ELSE 10,
     isPlayer    |-> IF "isPlayer" \in DOMAIN options THEN options.isPlayer ELSE FALSE,
     memory      |-> <<>>]

\* the constructor's _globalState (economyIndex in hundredths)
InitGlobalState ==
    [warActive |-> FALSE, economyIndex |-> 100, plagueActive |-> FALSE,
     season |-> "spring", dayOfYear |-> 1]

\* applyRelationEffect(effect): effect.target is "from:to", here the pair
\* <<from, to>> that split(':') yields.  The relation is read (and created)
\* through getRelation, a numeric field is added to or overwritten, and the
\* result goes through updateRelation, which clamps.  The updates object is
\* the relation itself, so its history stays the array it was.
NumericRelationFields == {"trust", "fear", "respect", "debt"}

applyRelationEffect(g, effect) ==
    LET f  == effect.target[1]
        t  == effect.target[2]
        g1 == EnsureRelation(g, f, t)
        r  == RelationOf(g1, f, t)
        r1 == IF effect.field \in NumericRelationFields
              THEN [r EXCEPT ![effect.field] =
                        IF effect.isRelative THEN @ + effect.change ELSE effect.change]
              ELSE r
    IN  AssignAndClamp(SetRelation(g1, f, t, r1), f, t, r1)

\* effect.target is kept as the segments split(':') yields: <<"a">> is the
\* string "a", the key _characters.get looks up
TargetKey(effect) == effect.target[1]

\* applyEmotionEffect(effect): an absent target returns early; a field the
\* emotion record holds is added to or overwritten, then clamped to [0, 1]
EmotionEffectApplied(character, effect) ==
    IF effect.field \in DOMAIN character.emotion
    THEN [character EXCEPT !.emotion[effect.field] =
              clamp(IF effect.isRelative THEN @ + effect.change ELSE effect.change, 0, 10000)]
    ELSE character

applyEmotionEffect(chs, effect) ==
    IF TargetKey(effect) \notin DOMAIN chs THEN chs
    ELSE [chs EXCEPT ![TargetKey(effect)] = EmotionEffectApplied(@, effect)]

\* applyResourceEffect(effect): resources are not clamped
applyResourceEffect(chs, effect) ==
    IF TargetKey(effect) \notin DOMAIN chs THEN chs
    ELSE [chs EXCEPT ![TargetKey(effect)].resources =
              IF effect.isRelative THEN @ + effect.change ELSE effect.change]

\* applyStatEffect(effect): only the field 'power' is written
applyStatEffect(chs, effect) ==
    IF TargetKey(effect) \notin DOMAIN chs THEN chs
    ELSE IF effect.field = "power"
    THEN [chs EXCEPT ![TargetKey(effect)].power =
              IF effect.isRelative THEN @ + effect.change ELSE effect.change]
    ELSE chs

\* applyEffect(effect): the switch over effect.type; the relation case
\* never looks at _characters
applyEffect(chs, g, effect) ==
    CASE effect.type = "emotion"  -> [characters |-> applyEmotionEffect(chs, effect), edges |-> g]
      [] effect.type = "relation" -> [characters |-> chs, edges |-> applyRelationEffect(g, effect)]
      [] effect.type = "resource" -> [characters |-> applyResourceEffect(chs, effect), edges |-> g]
      [] effect.type = "stat"     -> [characters |-> applyStatEffect(chs, effect), edges |-> g]
      [] OTHER                    -> [characters |-> chs, edges |-> g]

\* a season table whose spring runs one day longer
SeasonOfLateSummer(day) ==
    IF day <= 91 THEN "spring"
    ELSE IF day <= 180 THEN "summer"
    ELSE IF day <= 270 THEN "autumn"
    ELSE "winter"

\* the season of a day: 90-day ranges, winter to the end of the year
SeasonOf(day) ==
    IF day <= 90 THEN "spring"
    ELSE IF day <= 180 THEN "summer"
    ELSE IF day <= 270 THEN "autumn"
    ELSE "winter"

\* DECAY_RATE = 0.95 on anger, fear, joy and despair; trust is left alone.
\* The product is kept to the model's precision of one ten-thousandth.
DecayedFields == {"anger", "fear", "joy", "despair"}

\* a decay that takes trust along with the four other emotions
applyEmotionDecayAll(chs) ==
    [c \in DOMAIN chs |->
        [chs[c] EXCEPT !.emotion = [k \in DOMAIN @ |-> (@[k] * 95) \div 100]]]

applyEmotionDecay(chs) ==
    [c \in DOMAIN chs |->
        [chs[c] EXCEPT !.emotion =
            [k \in DOMAIN @ |-> IF k \in DecayedFields THEN (@[k] * 95) \div 100 ELSE @[k]]]]

\* advanceTime(): the clock, the day with its wrap after 365, the season of
\* the new day, then the decay
AdvanceTimeBody ==
    /\ time' = time + 1
    /\ LET day == IF globalState.dayOfYear + 1 > 365 THEN 1 ELSE globalState.dayOfYear + 1
       IN  globalState' = [globalState EXCEPT !.dayOfYear = day, !.season = SeasonOf(day)]
    /\ characters' = applyEmotionDecay(characters)
    /\ UNCHANGED <<simVars, history, relVars, diseaseVars, utilityVars>>

AdvanceTimeStep ==
    /\ time < MaxTime
    /\ AdvanceTimeBody

\* advanceTime() called day after day, over more than a year
AdvanceTimeDaily ==
    /\ time < MaxCalendarDays
    /\ AdvanceTimeBody
    /\ UNCHANGED turnVars

\* advanceTime() called on its own, outside an orchestrator's turn
AdvanceTime == AdvanceTimeStep /\ UNCHANGED turnVars

\* getAllCharacters(): the characters in the order they were added
CharacterOrder == <<"a", "b", "c">>

getAllCharacters(chs) == SelectSeq(CharacterOrder, LAMBDA c : c \in DOMAIN chs)

\* getCharactersAt(locationId)
getCharactersAt(chs, loc) ==
    SelectSeq(getAllCharacters(chs), LAMBDA c : chs[c].location = loc)

\* =================================================================== Disease
\* rollSuccess(probability) is Math.random() < probability with Math.random()
\* in [0,1): certain at probability >= 1, impossible at probability <= 0, and
\* either outcome in between.  The probability is the fraction num / den.
rollSuccess(num, den) ==
    IF num >= den THEN {TRUE} ELSE IF num <= 0 THEN {FALSE} ELSE {TRUE, FALSE}

\* DEFAULT_DISEASES; rates in thousandths
DEFAULT_DISEASES ==
    [common_cold |-> [transmissionRate |-> 300, recoveryRate |-> 500, mortalityRate |-> 1,
                      incubationPeriod |-> 1, immunityDuration |-> 30],
     plague      |-> [transmissionRate |-> 500, recoveryRate |-> 100, mortalityRate |-> 300,
                      incubationPeriod |-> 3, immunityDuration |-> 365],
     fever       |-> [transmissionRate |-> 700, recoveryRate |-> 100, mortalityRate |-> 20,
                      incubationPeriod |-> 1, immunityDuration |-> 60]]

\* Two further DiseaseType values, for the cases the defaults do not cover
\* within MaxTime ticks: an immunity that expires, and a disease that always
\* transmits (transmissionRate 1.0) and leaves permanent immunity
\* (immunityDuration 0, "0 = permanent" in DiseaseType).
ExtraDiseases ==
    [relapsing |-> [transmissionRate |-> 700, recoveryRate |-> 500, mortalityRate |-> 20,
                    incubationPeriod |-> 1, immunityDuration |-> ShortImmunity],
     virulent  |-> [transmissionRate |-> 1000, recoveryRate |-> 500, mortalityRate |-> 300,
                    incubationPeriod |-> 1, immunityDuration |-> 0]]

\* Disease.diseases
diseases == DEFAULT_DISEASES @@ ExtraDiseases

\* initializeHealthStatuses / registerCharacter
NewHealthStatus ==
    [state |-> "susceptible", diseaseId |-> "null",
     infectedTurn |-> 0, exposedTurn |-> 0, recoveredTurn |-> 0]

\* an updateIndividualHealth that lets an immunityDuration of 0 expire at once
updateIndividualHealthZeroExpires(status, currentTurn) ==
    IF status.diseaseId \notin DOMAIN diseases THEN {status}
    ELSE LET disease == diseases[status.diseaseId]
         IN  CASE status.state = "exposed" ->
                    IF currentTurn - status.exposedTurn >= disease.incubationPeriod
                    THEN {[status EXCEPT !.state = "infected", !.infectedTurn = currentTurn]}
                    ELSE {status}
               [] status.state = "infected" ->
                    {IF recovers
                     THEN [status EXCEPT !.state = "recovered", !.recoveredTurn = currentTurn]
                     ELSE IF dies THEN [status EXCEPT !.state = "dead"] ELSE status :
                        recovers \in rollSuccess(disease.recoveryRate, 1000),
                        dies \in rollSuccess(disease.mortalityRate, 1000)}
               [] status.state = "recovered" ->
                    IF disease.immunityDuration >= 0
                       /\ currentTurn - status.recoveredTurn >= disease.immunityDuration
                    THEN {[status EXCEPT !.state = "susceptible", !.diseaseId = "null"]}
                    ELSE {status}
               [] OTHER -> {status}

\* updateIndividualHealth(characterId, status, currentTurn): the statuses the
\* call can leave, one per outcome of its rolls
updateIndividualHealth(status, currentTurn) ==
    IF status.diseaseId \notin DOMAIN diseases THEN {status}
    ELSE LET disease == diseases[status.diseaseId]
         IN  CASE status.state = "exposed" ->
                    IF currentTurn - status.exposedTurn >= disease.incubationPeriod
                    THEN {[status EXCEPT !.state = "infected", !.infectedTurn = currentTurn]}
                    ELSE {status}
               [] status.state = "infected" ->
                    {IF recovers
                     THEN [status EXCEPT !.state = "recovered", !.recoveredTurn = currentTurn]
                     ELSE IF dies THEN [status EXCEPT !.state = "dead"] ELSE status :
                        recovers \in rollSuccess(disease.recoveryRate, 1000),
                        dies \in rollSuccess(disease.mortalityRate, 1000)}
               [] status.state = "recovered" ->
                    IF disease.immunityDuration > 0
                       /\ currentTurn - status.recoveredTurn >= disease.immunityDuration
                    THEN {[status EXCEPT !.state = "susceptible", !.diseaseId = "null"]}
                    ELSE {status}
               [] OTHER -> {status}

\* the loop of update() over healthStatuses: every combination of outcomes
RECURSIVE UpdateIndividuals(_, _, _)
UpdateIndividuals(hs, order, currentTurn) ==
    IF order = <<>> THEN {hs}
    ELSE UNION {UpdateIndividuals([hs EXCEPT ![Head(order)] = st], Tail(order), currentTurn) :
                    st \in updateIndividualHealth(hs[Head(order)], currentTurn)}

\* an infect that does not look at the present state
infectAnyState(hs, characterId, diseaseId, now) ==
    IF characterId \notin DOMAIN hs THEN hs
    ELSE [hs EXCEPT ![characterId] =
             [@ EXCEPT !.state = "exposed", !.diseaseId = diseaseId, !.exposedTurn = now]]

\* infect(characterId, diseaseId) on the status table
infect(hs, characterId, diseaseId, now) ==
    IF characterId \notin DOMAIN hs \/ hs[characterId].state # "susceptible" THEN hs
    ELSE [hs EXCEPT ![characterId] =
             [@ EXCEPT !.state = "exposed", !.diseaseId = diseaseId, !.exposedTurn = now]]

\* the contacts spreadDisease examines, in its iteration order: for every
\* infected character with a known disease, every other character at the same
\* location whose status is susceptible
SpreadContacts(chs, hs) ==
    LET all == getAllCharacters(chs)
        IsCarrier(c) == /\ c \in DOMAIN hs
                        /\ hs[c].state = "infected"
                        /\ hs[c].diseaseId \in DOMAIN diseases
        Near(c) == SelectSeq(getCharactersAt(chs, chs[c].location),
                             LAMBDA n : n # c /\ n \in DOMAIN hs
                                              /\ hs[n].state = "susceptible")
        RECURSIVE Pairs(_)
        Pairs(cs) ==
            IF cs = <<>> THEN <<>>
            ELSE (IF IsCarrier(Head(cs))
                  THEN [i \in 1..Len(Near(Head(cs))) |-> <<Head(cs), Near(Head(cs))[i]>>]
                  ELSE <<>>) \o Pairs(Tail(cs))
    IN  Pairs(all)

\* a contact factor without its 0.5 base
contactFactorNoBase(g, c, n) == RelationOf(g, c, n).trust + 100

\* contactFactor = 0.5 + (trust + 1) * 0.25, times 400
contactFactor400(g, c, n) == 200 + (RelationOf(g, c, n).trust + 100)

\* one pass of spreadDisease over the contacts: the relation of each contact
\* is read through getRelation (created when absent), the roll is
\* rollSuccess(transmissionRate * contactFactor), and the successes are
\* collected in newInfections.  Yields every [g, newInfections] the rolls allow.
RECURSIVE SpreadRolls(_, _, _, _)
SpreadRolls(g, hs, contacts, newInfections) ==
    IF contacts = <<>> THEN {[g |-> g, newInfections |-> newInfections]}
    ELSE LET c  == Head(contacts)[1]
             n  == Head(contacts)[2]
             g1 == EnsureRelation(g, c, n)
             d  == hs[c].diseaseId
         IN  UNION {SpreadRolls(g1, hs, Tail(contacts),
                                IF hit THEN Append(newInfections, <<n, d>>)
                                ELSE newInfections) :
                        hit \in rollSuccess(diseases[d].transmissionRate
                                                * contactFactor400(g1, c, n),
                                            1000 * 400)}

\* the closing loop of spreadDisease: infect() for each collected infection
RECURSIVE ApplyInfections(_, _, _)
ApplyInfections(hs, newInfections, now) ==
    IF newInfections = <<>> THEN hs
    ELSE ApplyInfections(infect(hs, Head(newInfections)[1], Head(newInfections)[2], now),
                         Tail(newInfections), now)

\* getStats(): the five counts
CountState(hs, st) == Cardinality({c \in DOMAIN hs : hs[c].state = st})

\* an updateGlobalPlagueState whose flag needs more than half of the living
\* to be exposed or infected
plagueActiveOfMajority(hs) ==
    LET total == CountState(hs, "susceptible") + CountState(hs, "exposed")
                 + CountState(hs, "infected") + CountState(hs, "recovered")
    IN  (CountState(hs, "exposed") + CountState(hs, "infected")) * 10 > 5 * Max(1, total)

\* updateGlobalPlagueState(): plagueActive := infectionRate > 0.1, the rate
\* being (exposed + infected) / max(1, susceptible + exposed + infected + recovered)
plagueActiveOf(hs) ==
    LET total == CountState(hs, "susceptible") + CountState(hs, "exposed")
                 + CountState(hs, "infected") + CountState(hs, "recovered")
    IN  (CountState(hs, "exposed") + CountState(hs, "infected")) * 10 > Max(1, total)

\* the state changes between two status tables, per individual, as
\* [from, to, waited, immunity]: waited is the time spent in the state left,
\* immunity the immunityDuration of the disease carried when leaving it
StateChange(c, before, after, now, by) ==
    IF before[c].state = after[c].state THEN <<>>
    ELSE <<[from |-> before[c].state, to |-> after[c].state, by |-> by,
            waited |-> now - enteredAt[c],
            immunity |-> IF before[c].diseaseId \in DOMAIN diseases
                         THEN diseases[before[c].diseaseId].immunityDuration ELSE -1]>>

\* Disease.update()
DiseaseUpdateStep ==
    \E hs1 \in UpdateIndividuals(healthStatuses, getAllCharacters(characters), time) :
      \E r \in SpreadRolls(edges, hs1, SpreadContacts(characters, hs1), <<>>) :
        LET hs2 == ApplyInfections(hs1, r.newInfections, time)
        IN  /\ healthStatuses' = hs2
            /\ activeOutbreaks' =
                   activeOutbreaks \cup
                   {r.newInfections[i][2] : i \in 1..Len(r.newInfections)}
            /\ edges' = r.g
            /\ globalState' = [globalState EXCEPT !.plagueActive = plagueActiveOf(hs2)]
            /\ lastTransitions' =
                   [c \in DOMAIN healthStatuses |->
                       StateChange(c, healthStatuses, hs1, time, "updateIndividualHealth")
                       \o (IF hs1[c].state = hs2[c].state THEN <<>>
                           ELSE <<[from |-> hs1[c].state, to |-> hs2[c].state,
                                   by |-> "spreadDisease",
                                   waited |-> IF hs1[c].state = healthStatuses[c].state
                                              THEN time - enteredAt[c] ELSE 0,
                                   immunity |-> -1]>>)]
            /\ enteredAt' =
                   [c \in DOMAIN healthStatuses |->
                       IF hs2[c].state = healthStatuses[c].state /\ hs1[c].state = hs2[c].state
                       THEN enteredAt[c] ELSE time]
            /\ UNCHANGED <<simVars, time, characters, history, clusters, lastQuery, nWrites, written, utilityVars>>

\* Disease.update() called on its own, outside an orchestrator's turn
DiseaseUpdate == DiseaseUpdateStep /\ UNCHANGED turnVars

\* the bookkeeping shared by the single-individual operations
RecordChange(hs2, by) ==
    /\ healthStatuses' = hs2
    /\ lastTransitions' =
           [c \in DOMAIN healthStatuses |-> StateChange(c, healthStatuses, hs2, time, by)]
    /\ enteredAt' =
           [c \in DOMAIN healthStatuses |->
               IF hs2[c].state = healthStatuses[c].state THEN enteredAt[c] ELSE time]

\* Disease.infect(characterId, diseaseId)
Infect(characterId, diseaseId) ==
    /\ infect(healthStatuses, characterId, diseaseId, time) # healthStatuses
    /\ RecordChange(infect(healthStatuses, characterId, diseaseId, time), "infect")
    /\ activeOutbreaks' = activeOutbreaks \cup {diseaseId}
    /\ UNCHANGED <<simVars, worldVars, relVars, utilityVars, turnVars>>

\* Disease.startOutbreak(diseaseId, initialCarrierId?): without a carrier one
\* of the susceptible characters is drawn at random
StartOutbreak(diseaseId, carrier) ==
    /\ diseaseId \in DOMAIN diseases
    /\ infect(healthStatuses, carrier, diseaseId, time) # healthStatuses
    /\ RecordChange(infect(healthStatuses, carrier, diseaseId, time), "startOutbreak")
    /\ activeOutbreaks' = activeOutbreaks \cup {diseaseId}
    /\ UNCHANGED <<simVars, worldVars, relVars, utilityVars, turnVars>>

\* Disease.treat(characterId, effectiveness), the roll having succeeded
Treat(characterId) ==
    /\ characterId \in DOMAIN healthStatuses
    /\ healthStatuses[characterId].state = "infected"
    /\ RecordChange([healthStatuses EXCEPT ![characterId] =
                        [@ EXCEPT !.state = "recovered", !.recoveredTurn = time]],
                    "treat")
    /\ UNCHANGED <<simVars, activeOutbreaks, worldVars, relVars, utilityVars, turnVars>>

\* ================================================================= UtilityAI
\* Units.  Personality traits, relation fields, weights and baseSuccessRate
\* are in hundredths; emotions and emotion changes in ten-thousandths;
\* resources and power are plain integers.  Each term of the breakdown has
\* its own unit, chosen so that every product below is exact:
\*   selfBenefit 1e-4, targetBenefit 1e-6, risk 1/4e6, personalityFit 1e-3,
\*   emotionalFit 1e-5, utility 1e-8.
\* -Infinity is the number below every finite utility of the model.
NegInfinity == -2000000000

NoTarget == "none"     \* targetId undefined

PersonalityFields == {"ambition", "loyalty", "morality", "courage", "cunning"}
EmotionFields == {"trust", "fear", "anger", "joy", "despair"}

\* getStatValue(character, field)
getStatValue(character, field) ==
    IF field \in PersonalityFields THEN character.personality[field]
    ELSE IF field \in EmotionFields THEN character.emotion[field]
    ELSE IF field = "power" THEN character.power
    ELSE IF field = "resources" THEN character.resources
    ELSE 0

\* getRelationValue(fromId, toId, field), on a graph where the edge exists
getRelationValue(g, fromId, toId, field) ==
    IF field \in DOMAIN DEFAULT_RELATION THEN RelationOf(g, fromId, toId)[field] ELSE 0

\* compareValues(a, op, b)
compareValues(a, op, b) ==
    CASE op = ">"  -> a > b
      [] op = "<"  -> a < b
      [] op = ">=" -> a >= b
      [] op = "<=" -> a <= b
      [] op = "==" -> a = b
      [] op = "!=" -> a # b
      [] OTHER     -> FALSE

\* checkCondition(character, condition, targetId); cid is character.id.
\* Yields the verdict and the graph as the getRelation of a relation
\* condition leaves it.
checkCondition(g, cid, character, condition, targetId) ==
    CASE condition.type = "stat" ->
            [ok |-> compareValues(getStatValue(character, condition.field),
                                  condition.operator, condition.value),
             g |-> g]
      [] condition.type = "relation" ->
            IF targetId = NoTarget THEN [ok |-> FALSE, g |-> g]
            ELSE LET g1 == EnsureRelation(g, cid, targetId)
                 IN  [ok |-> compareValues(getRelationValue(g1, cid, targetId, condition.field),
                                           condition.operator, condition.value),
                      g |-> g1]
      [] condition.type = "resource" ->
            [ok |-> compareValues(character.resources, condition.operator, condition.value),
             g |-> g]
      [] condition.type = "location" ->
            [ok |-> compareValues(character.location, condition.operator, condition.value),
             g |-> g]
      [] OTHER -> [ok |-> TRUE, g |-> g]

\* a checkConditions that is satisfied by the first condition alone
checkConditionsFirstOnly(g, cid, character, conditions, targetId) ==
    IF conditions = <<>> THEN [ok |-> TRUE, g |-> g]
    ELSE checkCondition(g, cid, character, Head(conditions), targetId)

\* checkConditions(character, conditions, targetId): stops at the first failure
RECURSIVE checkConditions(_, _, _, _, _)
checkConditions(g, cid, character, conditions, targetId) ==
    IF conditions = <<>> THEN [ok |-> TRUE, g |-> g]
    ELSE LET r == checkCondition(g, cid, character, Head(conditions), targetId)
         IN  IF ~r.ok THEN r
             ELSE checkConditions(r.g, cid, character, Tail(conditions), targetId)

\* calculateSelfBenefit(character, effects), in 1e-4
RECURSIVE calculateSelfBenefit(_, _)
calculateSelfBenefit(cid, effects) ==
    IF effects = <<>> THEN 0
    ELSE LET e == Head(effects)
             term == IF e.target = cid \/ e.target = "self"
                     THEN CASE e.type = "resource" -> e.change * 100
                            [] e.type = "stat" -> IF e.field = "power" THEN e.change * 1000 ELSE 0
                            [] e.type = "emotion" ->
                                  (IF e.field = "joy" THEN e.change ELSE 0)
                                  - (IF e.field = "fear" THEN e.change ELSE 0)
                            [] OTHER -> 0
                     ELSE 0
         IN  term + calculateSelfBenefit(cid, Tail(effects))

\* the effect scan of calculateTargetBenefit, in 1e-4
RECURSIVE TargetEffectSum(_, _)
TargetEffectSum(targetId, effects) ==
    IF effects = <<>> THEN 0
    ELSE LET e == Head(effects)
             term == IF e.target = targetId \/ e.target = "target"
                     THEN CASE e.type = "resource" -> e.change * 100
                            [] e.type = "emotion" -> IF e.field = "fear" THEN 0 - e.change ELSE 0
                            [] OTHER -> 0
                     ELSE 0
         IN  term + TargetEffectSum(targetId, Tail(effects))

\* calculateTargetBenefit(character, targetId, effects), in 1e-6: the sum
\* scaled by the actor's trust in the target
calculateTargetBenefit(g, cid, targetId, effects) ==
    TargetEffectSum(targetId, effects) * RelationOf(g, cid, targetId).trust

\* calculateSuccessRate(character, action, targetId), in 1/40000
calculateSuccessRate(g, cid, character, action, targetId) ==
    LET rate ==
          CASE action.category = "dialogue" ->
                  action.baseSuccessRate * (100 + character.personality.cunning) * 2
            [] action.category = "combat" ->
                  action.baseSuccessRate * (100 + character.personality.courage) * 2
            [] action.category = "social" /\ targetId # NoTarget ->
                  action.baseSuccessRate * (300 + RelationOf(g, cid, targetId).trust)
            [] OTHER -> action.baseSuccessRate * 400
    IN  clamp(rate, 0, 40000)

\* calculatePersonalityFit(character, action), in 1e-3
calculatePersonalityFit(character, action) ==
    LET p == character.personality
    IN  CASE action.category = "combat"   -> p.courage * 5 + p.ambition * 3 - p.morality * 2
          [] action.category = "dialogue" -> p.cunning * 4 + p.loyalty * 3
          [] action.category = "social"   -> p.loyalty * 4 + p.morality * 3
          [] action.category = "economic" -> p.ambition * 5 + p.cunning * 3
          [] OTHER -> 0

\* calculateEmotionalFit(character, action), in 1e-5
calculateEmotionalFit(character, action) ==
    LET e == character.emotion
    IN  (IF action.category = "combat" THEN e.anger * 5 ELSE 0)
        + (IF e.fear > 5000 /\ action.category # "combat" THEN 30000 ELSE 0)
        + (IF action.category \in {"social", "dialogue"} THEN e.trust * 3 ELSE 0)

ZeroBreakdown ==
    [selfBenefit |-> 0, targetBenefit |-> 0, risk |-> 0, personalityFit |-> 0,
     emotionalFit |-> 0]

\* calculateUtility(character, action, targetId): the UtilityResult and the
\* graph as the call's getRelation reads leave it
calculateUtility(g, cid, character, action, targetId) ==
    LET chk == checkConditions(g, cid, character, action.conditions, targetId)
    IN  IF ~chk.ok
        THEN [utility |-> NegInfinity, breakdown |-> ZeroBreakdown, g |-> chk.g]
        ELSE LET g1 == IF targetId # NoTarget THEN EnsureRelation(chk.g, cid, targetId)
                       ELSE chk.g
                 selfBenefit == calculateSelfBenefit(cid, action.effects)
                 targetBenefit == IF targetId # NoTarget
                                  THEN calculateTargetBenefit(g1, cid, targetId, action.effects)
                                  ELSE 0
                 successRate == calculateSuccessRate(g1, cid, character, action, targetId)
                 risk == (40000 - successRate) * action.weights.riskFactor
                 personalityFit == calculatePersonalityFit(character, action)
                 emotionalFit == calculateEmotionalFit(character, action)
             IN  [utility |-> selfBenefit * action.weights.selfBenefit * 100
                              + targetBenefit * action.weights.targetBenefit
                              - risk * 25
                              + personalityFit * 3 * 10000
                              + emotionalFit * 2 * 100,
                  breakdown |-> [selfBenefit |-> selfBenefit, targetBenefit |-> targetBenefit,
                                 risk |-> risk, personalityFit |-> personalityFit,
                                 emotionalFit |-> emotionalFit],
                  g |-> g1]

\* the Condition and Effect literals of the catalogue
Cond(type, field, operator, value) ==
    [type |-> type, field |-> field, operator |-> operator, value |-> value]

Eff(type, target, field, change) ==
    [type |-> type, target |-> target, field |-> field, change |-> change,
     isRelative |-> TRUE]

Weights(s, t, r) == [selfBenefit |-> s, targetBenefit |-> t, riskFactor |-> r]

\* BaseActions
BaseActions == <<
    [id |-> "talk_friendly", category |-> "dialogue", conditions |-> <<>>,
     effects |-> <<Eff("relation", "self:target", "trust", 5)>>,
     baseSuccessRate |-> 90, weights |-> Weights(30, 50, 10)],
    [id |-> "threaten", category |-> "dialogue",
     conditions |-> <<Cond("stat", "power", ">=", 5)>>,
     effects |-> <<Eff("relation", "self:target", "fear", 20),
                   Eff("relation", "self:target", "trust", -10)>>,
     baseSuccessRate |-> 70, weights |-> Weights(70, -50, 50)],
    [id |-> "trade", category |-> "economic",
     conditions |-> <<Cond("resource", "none", ">=", 10)>>,
     effects |-> <<Eff("resource", "self", "resources", -10),
                   Eff("relation", "self:target", "trust", 3)>>,
     baseSuccessRate |-> 95, weights |-> Weights(40, 40, 20)],
    [id |-> "attack", category |-> "combat", conditions |-> <<>>,
     effects |-> <<Eff("relation", "self:target", "trust", -50),
                   Eff("relation", "self:target", "fear", 30)>>,
     baseSuccessRate |-> 60, weights |-> Weights(80, -100, 80)],
    [id |-> "help", category |-> "social",
     conditions |-> <<Cond("resource", "none", ">=", 20)>>,
     effects |-> <<Eff("resource", "self", "resources", -20),
                   Eff("relation", "self:target", "trust", 15),
                   Eff("relation", "self:target", "debt", 20)>>,
     baseSuccessRate |-> 100, weights |-> Weights(20, 80, 10)],
    [id |-> "betray", category |-> "social",
     conditions |-> <<Cond("relation", "trust", ">", 0)>>,
     effects |-> <<Eff("resource", "self", "resources", 50),
                   Eff("relation", "self:target", "trust", -80)>>,
     baseSuccessRate |-> 50, weights |-> Weights(100, -100, 100)] >>

\* Further Action values: conditions of the kinds Condition.type allows but
\* checkCondition has no case for ('event', 'custom'), alone and followed by
\* a resource condition, a location condition, and effects that reach the
\* self and target terms of the breakdown.
ProbeActions == <<
    [id |-> "rite", category |-> "social",
     conditions |-> <<Cond("custom", "none", "==", 1)>>,
     effects |-> <<Eff("resource", "self", "resources", 30),
                   Eff("resource", "target", "resources", 40)>>,
     baseSuccessRate |-> 80, weights |-> Weights(100, 50, 30)],
    [id |-> "festival", category |-> "economic",
     conditions |-> <<Cond("event", "none", "==", 1),
                      Cond("resource", "none", ">=", 1000)>>,
     effects |-> <<Eff("stat", "self", "power", 2)>>,
     baseSuccessRate |-> 80, weights |-> Weights(100, 0, 30)],
    [id |-> "petition", category |-> "dialogue",
     conditions |-> <<Cond("resource", "none", ">=", 10),
                      Cond("location", "none", "==", "palace")>>,
     effects |-> <<Eff("emotion", "self", "joy", 1000),
                   Eff("emotion", "target", "fear", 2000)>>,
     baseSuccessRate |-> 80, weights |-> Weights(100, 50, 30)] >>

ActionCatalog == BaseActions \o ProbeActions

\* UtilityAI.calculateUtility(character, action, targetId) on a character of
\* the world
CalculateUtility(cid, action, targetId) ==
    LET r == calculateUtility(edges, cid, characters[cid], action, targetId)
    IN  /\ utilityCall' = [called |-> TRUE, character |-> cid, action |-> action,
                           targetId |-> targetId, utility |-> r.utility,
                           breakdown |-> r.breakdown]
        /\ edges' = r.g
        /\ UNCHANGED <<selection, lastCall, simVars, worldVars, clusters, lastQuery, nWrites, written, diseaseVars, turnVars>>

NoCall ==
    [called |-> FALSE, character |-> "none", action |-> BaseActions[1],
     targetId |-> NoTarget, utility |-> 0, breakdown |-> ZeroBreakdown]

\* selectAction: actions.map(calculateUtility), in order; each call reads
\* the graph the earlier calls left
RECURSIVE MapUtility(_, _, _, _, _, _)
RECURSIVE MapUtilityNext(_, _, _, _, _, _)
MapUtility(g, cid, character, actions, targetId, acc) ==
    IF Len(acc) = Len(actions) THEN [utilities |-> acc, g |-> g]
    ELSE MapUtilityNext(calculateUtility(g, cid, character, actions[Len(acc) + 1], targetId),
                        cid, character, actions, targetId, acc)
MapUtilityNext(r, cid, character, actions, targetId, acc) ==
    MapUtility(r.g, cid, character, actions, targetId, Append(acc, r.utility))

\* validResults: the results whose utility is above -Infinity
ValidResults(utilities) == {i \in 1..Len(utilities) : utilities[i] > NegInfinity}

\* the positions sort() gives: descending utility, equal utilities in their
\* former order
SortsBefore(utilities, j, i) ==
    \/ utilities[j] > utilities[i]
    \/ utilities[j] = utilities[i] /\ j < i

\* topN = validResults.slice(0, min(3, length)) after the sort
topNAll(utilities) == ValidResults(utilities)
topN(utilities) ==
    {i \in ValidResults(utilities) :
        Cardinality({j \in ValidResults(utilities) : SortsBefore(utilities, j, i)}) < 3}

\* what selectAction can return: 0 for null, else the index of an action of
\* topN. Every weight is at least 0.1, so Math.random() can land on each.
NullChoice == 0
selectAction(actions, utilities) ==
    IF actions = <<>> \/ ValidResults(utilities) = {} THEN {NullChoice}
    ELSE topN(utilities)

NoLastCall == [op |-> "none"]

NoSelection ==
    [called |-> FALSE, character |-> "none", actions |-> <<>>, targetId |-> NoTarget,
     utilities |-> <<>>, chosen |-> NullChoice]

SelectionMade(cid, actions, targetId, m) ==
    /\ \E chosen \in selectAction(actions, m.utilities) :
          selection' = [called |-> TRUE, character |-> cid, actions |-> actions,
                        targetId |-> targetId, utilities |-> m.utilities, chosen |-> chosen]
    /\ edges' = m.g

\* UtilityAI.selectAction(character, actions, targetId) on a character of
\* the world
SelectAction(cid, actions, targetId) ==
    /\ SelectionMade(cid, actions, targetId,
                     MapUtility(edges, cid, characters[cid], actions, targetId, <<>>))
    /\ UNCHANGED <<utilityCall, lastCall, simVars, worldVars, clusters, lastQuery, nWrites, written, diseaseVars, turnVars>>

\* ====================================================== graph statistics
\* getCentrality(id): out-degree plus the number of sources with an edge to id
getCentrality(g, id) ==
    (IF Contains(g.from, id) THEN Len(g.to[id]) ELSE 0)
    + Cardinality({f \in SeqToSet(g.from) : HasEdge(g, f, id)})

\* Array.prototype.sort with (a, b) => b.centrality - a.centrality is stable:
\* an element goes behind every element that is at least as central
InsertByCentrality(g, sorted, id) ==
    LET k == Cardinality({i \in 1..Len(sorted) :
                             getCentrality(g, sorted[i]) >= getCentrality(g, id)})
    IN  SubSeq(sorted, 1, k) \o <<id>> \o SubSeq(sorted, k + 1, Len(sorted))

RECURSIVE SortByCentrality(_, _, _)
SortByCentrality(g, nodes, sorted) ==
    IF nodes = <<>> THEN sorted
    ELSE SortByCentrality(g, Tail(nodes), InsertByCentrality(g, sorted, Head(nodes)))

\* getMostInfluential(limit)
getMostInfluential(g, limit) ==
    LET sorted == SortByCentrality(g, AllNodes(g), <<>>)
    IN  SubSeq(sorted, 1, Min(limit, Len(sorted)))

RECURSIVE SumRelationField(_, _, _)
SumRelationField(g, pairs, field) ==
    IF pairs = {} THEN 0
    ELSE LET p == CHOOSE q \in pairs : TRUE
         IN  g.rel[p][field] + SumRelationField(g, pairs \ {p}, field)

\* getStats(): the averages are kept as their numerator and denominator
getStats(g) ==
    [nodeCount  |-> Len(AllNodes(g)),
     edgeCount  |-> Cardinality(DOMAIN g.rel),
     totalTrust |-> SumRelationField(g, DOMAIN g.rel, "trust"),
     totalFear  |-> SumRelationField(g, DOMAIN g.rel, "fear")]

\* avg < bound and avg > bound for avg = edgeCount > 0 ? total / edgeCount : 0
AvgBelow(total, count, bound) ==
    IF count > 0 THEN total < bound * count ELSE 0 < bound

AvgAbove(total, count, bound) ==
    IF count > 0 THEN total > bound * count ELSE 0 > bound

\* =========================================================== EventGenerator
RECURSIVE SumResources(_, _)
SumResources(chs, ids) ==
    IF ids = <<>> THEN 0 ELSE chs[Head(ids)].resources + SumResources(chs, Tail(ids))

\* detectInstability(): the instabilities found, and the graph as the
\* getClusters(0.3) read leaves it
detectInstability(chs, g) ==
    LET stats == getStats(g)
        influential == getMostInfluential(g, 2)
        all == getAllCharacters(chs)
        cl == getClusters(g, 30)
    IN  [list |->
            (IF /\ Len(influential) >= 2
                /\ influential[1] \in DOMAIN chs
                /\ influential[2] \in DOMAIN chs
                /\ chs[influential[1]].power > chs[influential[2]].power * 2
             THEN <<"power_imbalance">> ELSE <<>>)
            \o (IF Len(all) > 0 /\ SumResources(chs, all) < 50 * Len(all)
                THEN <<"resource_scarcity">> ELSE <<>>)
            \o (IF AvgBelow(stats.totalTrust, stats.edgeCount, -20)
                THEN <<"trust_collapse">> ELSE <<>>)
            \o (IF Len(cl.groups) > 2 THEN <<"information_asymmetry">> ELSE <<>>)
            \o (IF AvgAbove(stats.totalFear, stats.edgeCount, 50)
                THEN <<"fear_spike">> ELSE <<>>),
         g |-> cl.g]

\* the triggers initializeTriggers() pushes, in order
Triggers ==
    <<"power_challenge", "betrayal_plot", "alliance_formation", "economic_crisis", "scandal">>

TriggerIds == SeqToSet(Triggers)

\* characters.find(...): the first hit, "none" for undefined
FirstOf(hits) == IF hits = <<>> THEN "none" ELSE hits[1]

\* trigger.condition(world): the verdict, and the graph as the read leaves it
TriggerCondition(id, chs, gs, g) ==
    CASE id = "power_challenge" ->
            LET influential == getMostInfluential(g, 2)
            IN  [ok |-> /\ Len(influential) >= 2
                        /\ influential[1] \in DOMAIN chs
                        /\ influential[2] \in DOMAIN chs
                        /\ chs[influential[2]].power * 10 >= chs[influential[1]].power * 7,
                 g |-> g]
      [] id = "betrayal_plot" ->
            [ok |-> \E c \in DOMAIN chs :
                        /\ chs[c].personality.ambition > 70
                        /\ chs[c].personality.loyalty < 30
                        /\ chs[c].power > 20,
             g |-> g]
      [] id = "alliance_formation" ->
            LET cl == getClusters(g, 40)
            IN  [ok |-> \E i \in 1..Len(cl.groups) : Len(cl.groups[i]) >= 2, g |-> cl.g]
      [] id = "economic_crisis" ->
            [ok |-> gs.economyIndex < 70, g |-> g]
      [] id = "scandal" ->
            [ok |-> \E c \in DOMAIN chs : chs[c].power > 30 /\ Len(getEnemies(g, c)) > 0,
             g |-> g]

\* baseProbability plus the probabilityModifiers, in ten-thousandths
TriggerProbability(id, chs, gs, g) ==
    CASE id = "power_challenge" ->
            LET influential == getMostInfluential(g, 2)
            IN  1000 + (IF Len(influential) >= 2 /\ influential[2] \in DOMAIN chs
                        THEN chs[influential[2]].personality.ambition * 20 ELSE 0)
      [] id = "betrayal_plot" ->
            LET stats == getStats(g)
            IN  500 + (IF AvgBelow(stats.totalTrust, stats.edgeCount, 0) THEN 1000 ELSE 0)
      [] id = "alliance_formation" -> 1500
      [] id = "economic_crisis" -> 2000 + (100 - gs.economyIndex) * 30
      [] id = "scandal" -> 800

\* clusters.sort((a, b) => b.length - a.length)[0]: the first of the longest
LargestCluster(groups) ==
    IF groups = <<>> THEN <<>>
    ELSE groups[CHOOSE i \in 1..Len(groups) :
                    /\ \A j \in 1..Len(groups) : Len(groups[j]) <= Len(groups[i])
                    /\ \A j \in 1..(i - 1) : Len(groups[j]) < Len(groups[i])]

GameEvent(type, now, participants, location, description, isPublic) ==
    [type |-> type, timestamp |-> now, participants |-> participants,
     location |-> location, description |-> description, effects |-> <<>>,
     isPublic |-> isPublic, witnesses |-> <<>>]

\* trigger.generateEvent(world): the event, and the graph as the read leaves
\* it.  The description is kept as the key of its text.
TriggerEvent(id, chs, g, now) ==
    CASE id = "power_challenge" ->
            [event |-> GameEvent("custom", now, getMostInfluential(g, 2), "capital",
                                 "power_challenge", TRUE),
             g |-> g]
      [] id = "betrayal_plot" ->
            LET betrayer == FirstOf(SelectSeq(getAllCharacters(chs),
                                LAMBDA c : /\ chs[c].personality.ambition > 70
                                           /\ chs[c].personality.loyalty < 30))
            IN  [event |-> GameEvent("betrayal", now,
                                     IF betrayer = "none" THEN <<>> ELSE <<betrayer>>,
                                     IF betrayer = "none" THEN "unknown"
                                     ELSE chs[betrayer].location,
                                     "betrayal_plot", FALSE),
                 g |-> g]
      [] id = "alliance_formation" ->
            LET cl == getClusters(g, 40)
            IN  [event |-> GameEvent("alliance", now, LargestCluster(cl.groups), "capital",
                                     "alliance_formation", TRUE),
                 g |-> cl.g]
      [] id = "economic_crisis" ->
            [event |-> GameEvent("custom", now, <<>>, "global", "economic_crisis", TRUE),
             g |-> g]
      [] id = "scandal" ->
            LET target == FirstOf(SelectSeq(getAllCharacters(chs),
                              LAMBDA c : chs[c].power > 30 /\ Len(getEnemies(g, c)) > 0))
            IN  [event |-> GameEvent("custom", now,
                                     IF target = "none" THEN <<>> ELSE <<target>>,
                                     "capital", "scandal", TRUE),
                 g |-> g]

\* a history that keeps only the latest event
addEventOverwriting(hist, event) == <<event>>

\* WorldState.addEvent(event): the push onto the history; the memory of the
\* witnesses is RememberWitnessed
addEvent(hist, event) == Append(hist, event)

\* the probability generateEvents rolls, in hundred-thousandths: the clamp
\* to [0, 0.8] comes before the instability factor 1 + n * 0.1
RollProbability(id, chs, gs, g, nInstabilities) ==
    LET p == clamp(TriggerProbability(id, chs, gs, g), 0, 8000)
    IN  IF nInstabilities > 0 THEN p * (10 + nInstabilities) ELSE p * 10

\* the body of "if (rollSuccess(probability))": the event is generated and
\* added, the marker set and its zero-delay deletion scheduled
FireTrigger(id, st, ev) ==
    [st EXCEPT !.g = ev.g,
               !.history = addEvent(@, ev.event),
               !.recent = @ \cup {id},
               !.timers = @ \cup {id},
               !.fired = @ \cup {id}]

\* one trigger that passed its gate and is not marked: roll says whether
\* rollSuccess(p) succeeded, which p must allow
RollTrigger(id, chs, now, roll, st, g, p) ==
    IF roll
    THEN [FireTrigger(id, st, TriggerEvent(id, chs, g, now))
             EXCEPT !.valid = @ /\ TRUE \in rollSuccess(p, 100000)]
    ELSE [st EXCEPT !.g = g, !.valid = @ /\ FALSE \in rollSuccess(p, 100000)]

\* one iteration of the loop, given the verdict of trigger.condition(world)
TriggerIteration(id, chs, gs, now, nInstabilities, roll, st, cond) ==
    IF ~cond.ok
    THEN [st EXCEPT !.g = cond.g, !.valid = @ /\ ~roll]
    ELSE IF id \in st.recent
    THEN [st EXCEPT !.g = cond.g, !.skipped = @ \cup {id}, !.valid = @ /\ ~roll]
    ELSE RollTrigger(id, chs, now, roll, st, cond.g,
                     RollProbability(id, chs, gs, cond.g, nInstabilities))

\* the "for (const trigger of this.triggers)" loop of generateEvents.
\* rolls[id] is the outcome of the trigger's rollSuccess when the loop gets
\* to roll it; st.valid says that rolls is an outcome the probabilities allow
\* (and is FALSE for the triggers the loop does not roll).
RECURSIVE generateEventsLoop(_, _, _, _, _, _, _)
generateEventsLoop(todo, chs, gs, now, nInstabilities, rolls, st) ==
    IF todo = <<>> THEN st
    ELSE generateEventsLoop(Tail(todo), chs, gs, now, nInstabilities, rolls,
             TriggerIteration(Head(todo), chs, gs, now, nInstabilities, rolls[Head(todo)],
                              st, TriggerCondition(Head(todo), chs, gs, st.g)))

\* generateEvents(): detectInstability, then the loop
generateEvents(chs, gs, g, hist, now, recent, pending, rolls) ==
    LET inst == detectInstability(chs, g)
    IN  generateEventsLoop(Triggers, chs, gs, now, Len(inst.list), rolls,
                           [g |-> inst.g, history |-> hist, recent |-> recent,
                            timers |-> pending, fired |-> {}, skipped |-> {},
                            valid |-> TRUE])

\* the player's character
PlayerId == "a"

\* generateNPCActions(): every outcome of its rolls.  Each non-player
\* character acts with probability 0.1; an ambitious one gains power, a
\* cunning one may (0.3) add 0.05 trust toward a random other non-player.
NPCActOutcomes(npc, npcs, chs, g) ==
    LET chs1 == IF chs[npc].personality.ambition > 70
                THEN [chs EXCEPT ![npc].power = @ + 1] ELSE chs
        others == SelectSeq(npcs, LAMBDA c : c # npc)
    IN  {[chs |-> chs1, g |-> g]}
        \cup (IF chs[npc].personality.cunning > 70
              THEN {[chs |-> chs1, g |-> modifyRelation(g, npc, others[i], [trust |-> 5])] :
                        i \in 1..Len(others)}
              ELSE {})

RECURSIVE generateNPCActions(_, _, _, _)
generateNPCActions(todo, npcs, chs, g) ==
    IF todo = <<>> THEN {[chs |-> chs, g |-> g]}
    ELSE UNION {generateNPCActions(Tail(todo), npcs, o.chs, o.g) :
                    o \in {[chs |-> chs, g |-> g]} \cup NPCActOutcomes(Head(todo), npcs, chs, g)}

\* clearRecentEvents() leaves the set empty
clearRecentEvents(recent) == {}

\* ============================================================ FeedbackLoop
\* the thresholds initializeThresholds() installs, in order
ThresholdIds == <<"trust_collapse", "fear_spike", "power_vacuum">>

ThresholdCheck(id, chs, g) ==
    LET stats == getStats(g)
    IN  CASE id = "trust_collapse" -> AvgBelow(stats.totalTrust, stats.edgeCount, -30)
          [] id = "fear_spike" -> AvgAbove(stats.totalFear, stats.edgeCount, 60)
          [] id = "power_vacuum" ->
                LET influential == getMostInfluential(g, 1)
                IN  /\ Len(influential) > 0
                    /\ influential[1] \in DOMAIN chs
                    /\ chs[influential[1]].power < 20

ThresholdEventType(id) == IF id = "trust_collapse" THEN "betrayal" ELSE "custom"

\* checkThresholds(): one event per threshold whose check passes
RECURSIVE checkThresholds(_, _, _, _, _)
checkThresholds(todo, chs, g, hist, now) ==
    IF todo = <<>> THEN hist
    ELSE checkThresholds(Tail(todo), chs, g,
             IF ThresholdCheck(Head(todo), chs, g)
             THEN addEvent(hist, GameEvent(ThresholdEventType(Head(todo)), now, <<>>,
                                           "global", Head(todo), TRUE))
             ELSE hist,
             now)

\* ------------------------------------------------------ simulateRumorSpread
\* spreadProbability(relation) in thousandths, for the callbacks of the form
\* base + slope * relation.trust (a constant has slope 0)
SpreadProb(p, relation) == p.base + p.slope * relation.trust

\* one turn of the loop: the targets of the frontier's edges that are not
\* informed yet; Math.random() < prob can succeed when prob > 0 and cannot
\* fail when prob >= 1
NewlyInformed(g, informed, frontier, p) ==
    LET can  == {t \in Ids \ informed : \E f \in frontier :
                    HasEdge(g, f, t) /\ SpreadProb(p, RelationOf(g, f, t)) > 0}
        must == {t \in can : \E f \in frontier :
                    HasEdge(g, f, t) /\ SpreadProb(p, RelationOf(g, f, t)) >= 1000}
    IN  {new \in SUBSET can : must \subseteq new}

\* a spread that runs one turn more than asked
RECURSIVE RumorRoundsOneMore(_, _, _, _, _)
RumorRoundsOneMore(g, informed, frontier, turns, p) ==
    IF turns < 0 THEN {informed}
    ELSE UNION {RumorRoundsOneMore(g, informed \cup new, new, turns - 1, p) :
                    new \in NewlyInformed(g, informed, frontier, p)}

\* for (t = 0; t < turns; t++): the sets the loop can end with
RECURSIVE RumorRounds(_, _, _, _, _)
RumorRounds(g, informed, frontier, turns, p) ==
    IF turns <= 0 THEN {informed}
    ELSE UNION {RumorRounds(g, informed \cup new, new, turns - 1, p) :
                    new \in NewlyInformed(g, informed, frontier, p)}

\* simulateRumorSpread(source, turns, spreadProbability): every set it can return
simulateRumorSpread(g, source, turns, p) == RumorRounds(g, {source}, {source}, turns, p)

\* ============================================================= FeedbackLoop
getEventType(category) ==
    CASE category = "combat" -> "combat"
      [] category = "economic" -> "trade"
      [] category = "social" -> "dialogue"
      [] OTHER -> "custom"

isPublicAction(category) == category \in {"combat", "economic"}

\* getWitnesses(locationId, excludeId): at most five, the actor left out
getWitnesses(chs, locationId, excludeId) ==
    LET there == SelectSeq(getCharactersAt(chs, locationId), LAMBDA c : c # excludeId)
    IN  SubSeq(there, 1, Min(5, Len(there)))

\* the target applyEffectSilently resolves, as the segments split(':')
\* yields: 'target' and 'self:target' stay as written without a targetId
resolveTarget(target, actorId, targetId) ==
    CASE target = "self" -> <<actorId>>
      [] target = "target" /\ targetId # NoTarget -> <<targetId>>
      [] target = "self:target" /\ targetId # NoTarget -> <<actorId, targetId>>
      [] target = "self:target" -> <<"self", "target">>
      [] OTHER -> <<target>>

\* trackChange(target, field, change): the key is `${target}:${field}`
trackChange(acc, target, field, change, now) ==
    LET key == Append(target, field)
    IN  IF key \in DOMAIN acc
        THEN [acc EXCEPT ![key] = [@ EXCEPT !.totalChange = @ + change,
                                            !.changeCount = @ + 1,
                                            !.lastTimestamp = now]]
        ELSE (key :> [characterId |-> target, field |-> field, totalChange |-> change,
                      changeCount |-> 1, lastTimestamp |-> now]) @@ acc

\* applyEffectSilently on st = [characters, edges, acc]
applyEffectSilently(st, effect, actorId, targetId, now) ==
    LET resolved == resolveTarget(effect.target, actorId, targetId)
        applied  == applyEffect(st.characters, st.edges, [effect EXCEPT !.target = resolved])
    IN  [characters |-> applied.characters, edges |-> applied.edges,
         acc |-> trackChange(st.acc, resolved, effect.field, effect.change, now)]

RECURSIVE ApplyEffectsSilently(_, _, _, _, _)
ApplyEffectsSilently(st, effects, actorId, targetId, now) ==
    IF effects = <<>> THEN st
    ELSE ApplyEffectsSilently(applyEffectSilently(st, Head(effects), actorId, targetId, now),
                              Tail(effects), actorId, targetId, now)

\* the memory entry addEvent gives to a witness and spreadInformation to an
\* informed character; an event is named by its position in the history
MemoryOf(eventId, interpretation, now) ==
    [eventId |-> eventId, interpretation |-> interpretation, timestamp |-> now]

\* WorldState.addEvent's loop over event.witnesses
RememberWitnessed(chs, event, eventId, now) ==
    [c \in DOMAIN chs |->
        IF Contains(event.witnesses, c)
        THEN [chs[c] EXCEPT !.memory = Append(@, MemoryOf(eventId, "witnessed", now))]
        ELSE chs[c]]

\* a witness whose combat table lowers trust whatever its morality
WitnessDeltaHarsh(witness, type) ==
    CASE type = "betrayal" -> [trust |-> -20, respect |-> -10]
      [] type = "combat" ->
            [trust   |-> -10,
             respect |-> IF witness.personality.courage > 60 THEN 5 ELSE 0]
      [] type = "trade" -> [trust |-> 2, respect |-> 0]
      [] OTHER -> [trust |-> 0, respect |-> 0]

\* evaluateWitnessedAction's switch over event.type
WitnessDelta(witness, type) ==
    CASE type = "betrayal" -> [trust |-> -20, respect |-> -10]
      [] type = "combat" ->
            [trust   |-> IF witness.personality.morality > 60 THEN -10 ELSE 0,
             respect |-> IF witness.personality.courage > 60 THEN 5 ELSE 0]
      [] type = "trade" -> [trust |-> 2, respect |-> 0]
      [] OTHER -> [trust |-> 0, respect |-> 0]

evaluateWitnessedAction(g, chs, witnessId, actorId, type) ==
    IF witnessId \notin DOMAIN chs THEN g
    ELSE LET delta == WitnessDelta(chs[witnessId], type)
         IN  IF delta.trust # 0 \/ delta.respect # 0
             THEN modifyRelation(g, witnessId, actorId, delta)
             ELSE g

\* propagateEffects' two loops, over the witnesses from position i and the
\* participants from position j
RECURSIVE EvaluateWitnesses(_, _, _, _, _)
EvaluateWitnesses(g, chs, event, i, j) ==
    IF i > Len(event.witnesses) THEN g
    ELSE IF \/ Contains(event.participants, event.witnesses[i])
            \/ event.witnesses[i] \notin DOMAIN chs
            \/ j > Len(event.participants)
    THEN EvaluateWitnesses(g, chs, event, i + 1, 1)
    ELSE EvaluateWitnesses(
             evaluateWitnessedAction(g, chs, event.witnesses[i], event.participants[j],
                                     event.type),
             chs, event, i, j + 1)

\* spreadInformation: (relation) => 0.2 + relation.trust * 0.3 over 2 turns;
\* the informed who are characters and not participants remember a rumour
RumorProbability == [base |-> 200, slope |-> 3]

RememberRumor(chs, event, eventId, informed, now) ==
    [c \in DOMAIN chs |->
        IF c \in informed /\ ~Contains(event.participants, c)
        THEN [chs[c] EXCEPT !.memory = Append(@, MemoryOf(eventId, "rumor", now))]
        ELSE chs[c]]

\* the event applyChoice records
ChoiceEvent(chs, action, actorId, targetId, now) ==
    [type |-> getEventType(action.category), timestamp |-> now,
     participants |-> IF targetId # NoTarget THEN <<actorId, targetId>> ELSE <<actorId>>,
     location |-> chs[actorId].location, description |-> action.id,
     effects |-> action.effects, isPublic |-> isPublicAction(action.category),
     witnesses |-> getWitnesses(chs, chs[actorId].location, actorId)]

\* applyChoice(choice, actorId, targetId) of an actor the world holds, up to
\* the rumour: the effects, the event and the witnesses' evaluations
ChoiceApplied(chs, g, acc, hist, action, actorId, targetId, now) ==
    LET st    == ApplyEffectsSilently([characters |-> chs, edges |-> g, acc |-> acc],
                                      action.effects, actorId, targetId, now)
        event == ChoiceEvent(chs, action, actorId, targetId, now)
    IN  [characters |-> RememberWitnessed(st.characters, event, Len(hist) + 1, now),
         afterEffects |-> st.edges,
         edges |-> EvaluateWitnesses(st.edges, st.characters, event, 1, 1),
         acc |-> st.acc,
         event |-> event,
         history |-> addEvent(hist, event)]

\* ================================================================ GameCore
\* decideNPCAction(npc, target): the trust change of the action chosen, 0
\* when it returns null; on a graph where the relation exists
decideNPCAction(g, npc, target) ==
    LET trust == RelationOf(g, npc, target).trust
    IN  IF trust > 50 THEN 5
        ELSE IF trust > 20 THEN 10
        ELSE IF trust < -30 THEN -5
        ELSE 0

\* processNPCAutonomousActions(): every outcome of its random draws.  Each
\* character other than the player, with someone else at its location, acts
\* with probability 0.3 on a random one of them.
AutonomousOutcomes(npc, chs, g) ==
    LET nearby == SelectSeq(getCharactersAt(chs, chs[npc].location), LAMBDA c : c # npc)
    IN  {g} \cup {LET g1 == EnsureRelation(g, npc, nearby[i])
                      change == decideNPCAction(g1, npc, nearby[i])
                  IN  IF change = 0 THEN g1
                      ELSE modifyRelation(g1, npc, nearby[i], [trust |-> change]) :
                  i \in 1..Len(nearby)}

RECURSIVE processNPCAutonomousActions(_, _, _)
processNPCAutonomousActions(todo, chs, g) ==
    IF todo = <<>> THEN {g}
    ELSE UNION {processNPCAutonomousActions(Tail(todo), chs, g1) :
                    g1 \in AutonomousOutcomes(Head(todo), chs, g)}

\* ================================================================ Economy
\* Quantities of goods (supply, demand, production, consumption, transfers)
\* and prices are in thousandths; the draws of randomRange are in tenths;
\* inflationRate is in ten-thousandths.
GoodsOrder == <<"food", "weapons", "luxury", "materials", "medicine">>
GoodsTypes == SeqToSet(GoodsOrder)
BASE_PRICES == [food |-> 10, weapons |-> 50, luxury |-> 100, materials |-> 20, medicine |-> 30]

\* randomRange(0.8, 1.2) and randomRange(-0.5, 0.5): both ends and the middle
RandomFactors == {8, 10, 12}
DemandDraws == {-5, 0, 5}

LocationIds(locs) == {locs[i].id : i \in 1..Len(locs)}
getLocation(locs, id) == locs[CHOOSE i \in 1..Len(locs) : locs[i].id = id]

\* initializeMarkets: a market for every city and village
HasMarketType(location) == location.type \in {"city", "village"}
MarketIds(locs) == {locs[i].id : i \in {j \in 1..Len(locs) : HasMarketType(locs[j])}}

\* createMarket; sf and df are the draws for supply and demand
createMarket(location, sf, df) ==
    LET baseSupply == IF location.type = "city" THEN 100 ELSE 30
    IN  [prices      |-> [g \in GoodsTypes |-> BASE_PRICES[g] * 1000],
         supply      |-> [g \in GoodsTypes |-> baseSupply * sf * 100],
         demand      |-> [g \in GoodsTypes |-> location.population * df],
         tradeVolume |-> 0]

initializeMarkets(locs, sf, df) ==
    [id \in MarketIds(locs) |-> createMarket(getLocation(locs, id), sf, df)]

\* `x || 1` on a quantity
OrOne(v) == IF v = 0 THEN 1000 ELSE v

\* Math.pow(ratio, 0.3) in tenths, rounded down: PowThresholds[k] is the
\* least ratio (in thousandths) whose power reaches k tenths. Beyond 4.0 the
\* table stops: every larger result is clamped to three times the base price.
PowThresholds ==
    <<1, 5, 19, 48, 100, 183, 305, 476, 704, 1000,
      1374, 1837, 2398, 3070, 3864, 4791, 5864, 7095, 8496, 10080,
      11860, 13849, 16061, 18509, 21207, 24169, 27409, 30941, 34780, 38941,
      43439, 48288, 53504, 59102, 65097, 71506, 78345, 85628, 93372, 101594>>
PowTenths(ratio) == Cardinality({k \in 1..Len(PowThresholds) : PowThresholds[k] <= ratio})

\* updatePrices, one goods of one market
UnclampedPrice(market, goods, inflation) ==
    LET supply == OrOne(market.supply[goods])
        demand == OrOne(market.demand[goods])
        ratio  == (demand * 1000) \div Max(1000, supply)
    IN  (BASE_PRICES[goods] * PowTenths(ratio) * (10000 + inflation)) \div 100

newPriceNoClamp(market, goods, inflation) == UnclampedPrice(market, goods, inflation)
newPrice(market, goods, inflation) ==
    clamp(UnclampedPrice(market, goods, inflation),
          BASE_PRICES[goods] * 500, BASE_PRICES[goods] * 3000)

updatePrices(mk, inflation) ==
    [id \in DOMAIN mk |->
        [mk[id] EXCEPT !.prices = [g \in GoodsTypes |-> newPrice(mk[id], g, inflation)]]]

\* calculateProduction; rp is the draw
ProductionFactor(location, goods) ==
    CASE goods = "food"      -> IF location.type = "village" THEN 20 ELSE 5
      [] goods = "weapons"   -> IF location.type = "city" THEN 10 ELSE 2
      [] goods = "luxury"    -> IF location.type = "city" THEN 10 ELSE 0
      [] goods = "materials" -> 10
      [] goods = "medicine"  -> 5
calculateProduction(location, goods, rp) ==
    (location.resources * ProductionFactor(location, goods) * rp) \div 10

\* calculateDemandChange; rd is the draw
SeasonalFactor(goods, season, plague) ==
    IF goods = "medicine" /\ plague THEN 30
    ELSE IF goods = "food" /\ season = "winter" THEN 15
    ELSE 10
calculateDemandChange(location, goods, rd, season, plague) ==
    (location.population * SeasonalFactor(goods, season, plague) * rd) \div 1000

\* updateSupplyDemand, one goods of one market. The supply is first set to
\* currentSupply + production and then set again, from the same
\* currentSupply, to max(0, currentSupply - consumption).
SupplyDemandStep(market, location, goods, rp, rd, season, plague) ==
    LET currentSupply == market.supply[goods]
        currentDemand == market.demand[goods]
        production    == calculateProduction(location, goods, rp)
        demandChange  == calculateDemandChange(location, goods, rd, season, plague)
        consumption   == Min(currentSupply, currentDemand \div 10)
    IN  [before      |-> currentSupply,
         production  |-> production,
         consumption |-> consumption,
         supply      |-> Max(0, currentSupply - consumption),
         demand      |-> Max(0, currentDemand + demandChange)]

SupplyDemandSteps(mk, locs, rp, rd, season, plague) ==
    [id \in DOMAIN mk |-> [g \in GoodsTypes |->
        SupplyDemandStep(mk[id], getLocation(locs, id), g, rp, rd, season, plague)]]

updateSupplyDemand(mk, steps) ==
    [id \in DOMAIN mk |->
        [mk[id] EXCEPT !.supply = [g \in GoodsTypes |-> steps[id][g].supply],
                       !.demand = [g \in GoodsTypes |-> steps[id][g].demand]]]

\* calculateInflation: lerp towards 0.1 when economyIndex < 1, else towards 0
calculateInflation(inflation, economyIndex) ==
    LET target == IF economyIndex < 100 THEN 1000 ELSE 0
    IN  clamp(inflation + ((target - inflation) \div 10), -1000, 5000)

\* updateTradeRoutes: the (location, connected market, goods) triples in the
\* order the three nested loops visit them
ConnectedMarkets(location, mk) == SelectSeq(location.connectedTo, LAMBDA id : id \in DOMAIN mk)
RoutesOfLocation(location, mk) ==
    LET conn == ConnectedMarkets(location, mk)
    IN  [k \in 1..(Len(conn) * Len(GoodsOrder)) |->
            [market    |-> location.id,
             connected |-> conn[((k - 1) \div Len(GoodsOrder)) + 1],
             goods     |-> GoodsOrder[((k - 1) % Len(GoodsOrder)) + 1]]]
RECURSIVE Routes(_, _, _)
Routes(locs, mk, i) ==
    IF i > Len(locs) THEN <<>>
    ELSE (IF locs[i].id \in DOMAIN mk THEN RoutesOfLocation(locs[i], mk) ELSE <<>>)
         \o Routes(locs, mk, i + 1)

TRANSFER == 5000
WantsTransfer(mk, route) ==
    mk[route.market].prices[route.goods] * 10 > mk[route.connected].prices[route.goods] * 13
CanTransferAlways(mk, route) == TRUE
CanTransfer(mk, route) == mk[route.connected].supply[route.goods] > TRANSFER
MoveGoods(mk, route) ==
    LET afterTake == [mk EXCEPT ![route.connected].supply[route.goods] = @ - TRANSFER]
    IN  [afterTake EXCEPT ![route.market].supply[route.goods] = @ + TRANSFER,
                          ![route.market].tradeVolume = @ + TRANSFER]
TradeStep(mk, route) ==
    IF WantsTransfer(mk, route) /\ CanTransfer(mk, route) THEN MoveGoods(mk, route) ELSE mk
RECURSIVE TradeLoop(_, _, _)
TradeLoop(mk, routes, i) ==
    IF i > Len(routes) THEN mk ELSE TradeLoop(TradeStep(mk, routes[i]), routes, i + 1)
updateTradeRoutes(mk, locs) == TradeLoop(mk, Routes(locs, mk, 1), 1)

NoEconomyLog == [ticked |-> FALSE]
EconomyLogOf(steps, supplied) == [ticked |-> TRUE, steps |-> steps, supplied |-> supplied]

\* Economy.update(): updatePrices; updateSupplyDemand; calculateInflation;
\* updateTradeRoutes. One draw of each kind serves every goods of every
\* market in the tick.
EconomyUpdated(rp, rd, priced, steps) ==
    /\ markets' = updateTradeRoutes(updateSupplyDemand(priced, steps), locations)
    /\ economyLog' = EconomyLogOf(steps, updateSupplyDemand(priced, steps))
EconomyUpdateStep ==
    /\ economyTicks < MaxEconomyTicks
    /\ \E rp \in RandomFactors, rd \in DemandDraws :
          EconomyUpdated(rp, rd, updatePrices(markets, inflationRate),
                         SupplyDemandSteps(markets, locations, rp, rd,
                                           globalState.season, globalState.plagueActive))
    /\ inflationRate' = calculateInflation(inflationRate, globalState.economyIndex)
    /\ economyTicks' = economyTicks + 1
    /\ UNCHANGED locations
EconomyUpdate ==
    /\ EconomyUpdateStep
    /\ UNCHANGED <<worldVars, relVars, diseaseVars, utilityVars, turnVars, ecosystemVars,
                   weatherVars, feedbackVars, gameVars>>

\* ============================================================== Ecosystem
\* Populations are in hundredths of an individual; the rates, the seasonal
\* multiplier's product and the stability are in thousandths.
NewSpecies(id, type, population, growthRate, carryingCapacity, predationRate, conversionRate, mortalityRate) ==
    [id |-> id, type |-> type, population |-> population, growthRate |-> growthRate,
     carryingCapacity |-> carryingCapacity, predationRate |-> predationRate,
     conversionRate |-> conversionRate, mortalityRate |-> mortalityRate]

Grass  == NewSpecies("grass", "plant", 100000, 100, 2000, 0, 0, 0)
Deer   == NewSpecies("deer", "prey", 15000, 150, 500, 0, 0, 0)
Wolf   == NewSpecies("wolf", "predator", 4000, 10, 100, 5, 150, 20)
Goblin == NewSpecies("goblin", "predator", 3000, 20, 100, 5, 10, 50)

\* createEcosystem: grass, deer, wolf, and goblins in a dungeon
createEcosystem(location) ==
    [species   |-> <<Grass, Deer, Wolf>> \o
                   (IF location.type = "dungeon" \/ location.id = "dungeon"
                    THEN <<Goblin>> ELSE <<>>),
     resources |-> location.resources,
     stability |-> location.stability]

\* initializeEcosystems: an ecosystem for every wilderness and village
EcosystemIds(locs) ==
    {locs[i].id : i \in {j \in 1..Len(locs) : locs[j].type \in {"wilderness", "village"}}}
initializeEcosystems(locs) ==
    [id \in EcosystemIds(locs) |-> createEcosystem(getLocation(locs, id))]

\* resourceMultiplier of the season, in tenths
ResourceMultiplier(season) ==
    CASE season = "spring" -> 12
      [] season = "summer" -> 10
      [] season = "autumn" -> 8
      [] season = "winter" -> 5
      [] OTHER -> 10

OfType(species, type) == SelectSeq(species, LAMBDA s : s.type = type)

\* a logistic growth whose term lacks the factor N: r K (1 - N/K)
updateLogisticGrowthFromNothing(species, resourceMultiplier) ==
    LET N == species.population
        r == (species.growthRate * resourceMultiplier) \div 10
        K == species.carryingCapacity * 100
        growth == (r * (K - N)) \div 1000
    IN  [species EXCEPT !.population = Max(0, N + growth)]

\* updateLogisticGrowth: N + r N (1 - N/K), never below 0
updateLogisticGrowth(species, resourceMultiplier) ==
    LET N == species.population
        r == (species.growthRate * resourceMultiplier) \div 10
        K == species.carryingCapacity * 100
        growth == (((r * N) \div 1000) * (((K - N) * 1000) \div K)) \div 1000
    IN  [species EXCEPT !.population = Max(0, N + growth)]

RECURSIVE SumPopulation(_)
SumPopulation(list) ==
    IF list = <<>> THEN 0 ELSE Head(list).population + SumPopulation(Tail(list))

\* predationLoss: the sum of a N P over the predators
RECURSIVE PredationLoss(_, _)
PredationLoss(N, predators) ==
    IF predators = <<>> THEN 0
    ELSE (((Head(predators).predationRate * N) \div 1000) * Head(predators).population) \div 100
         + PredationLoss(N, Tail(predators))

\* updatePreyPopulation, the prey's own population
updatePreyPopulation(prey, predators, plants) ==
    LET N == prey.population
        foodAvailability == Min(1000, SumPopulation(plants) \div 100)
        naturalGrowth == (((prey.growthRate * N) \div 1000) * foodAvailability) \div 1000
    IN  [prey EXCEPT !.population = Max(0, N + naturalGrowth - PredationLoss(N, predators))]

\* updatePreyPopulation, what the prey (of population N before) eats of each plant
GrazePlants(plants, N) ==
    [i \in 1..Len(plants) |->
        [plants[i] EXCEPT !.population = Max(0, @ - (N \div 100))]]

\* the loop over the preys: each prey is updated against the plants the
\* earlier preys left
RECURSIVE UpdatePreys(_, _, _, _)
UpdatePreys(preys, predators, plants, i) ==
    IF i > Len(preys) THEN [preys |-> preys, plants |-> plants]
    ELSE UpdatePreys([preys EXCEPT ![i] = updatePreyPopulation(preys[i], predators, plants)],
                     predators, GrazePlants(plants, preys[i].population), i + 1)

\* growth of a predator: the sum of b a prey P over the preys
RECURSIVE PredatorGrowth(_, _)
PredatorGrowth(predator, preys) ==
    IF preys = <<>> THEN 0
    ELSE ((((predator.conversionRate * predator.predationRate * Head(preys).population)
              \div 1000) * predator.population) \div 100000)
         + PredatorGrowth(predator, Tail(preys))

\* updatePredatorPopulation; a mortalityRate of 0 counts as 0.1
updatePredatorPopulation(predator, preys) ==
    LET P == predator.population
        m == IF predator.mortalityRate = 0 THEN 100 ELSE predator.mortalityRate
        death == (m * P) \div 1000
    IN  [predator EXCEPT !.population = Max(0, P + PredatorGrowth(predator, preys) - death)]

\* updateStability
updateStability(species) ==
    LET endangered == Cardinality({i \in 1..Len(species) :
                          species[i].population < species[i].carryingCapacity * 10})
        overpopulated == Cardinality({i \in 1..Len(species) :
                          species[i].population > species[i].carryingCapacity * 90})
        n == IF Len(species) = 0 THEN 1 ELSE Len(species)
    IN  clamp(1000 - (((endangered + overpopulated) * 500) \div n), 0, 1000)

\* the species Map after an update keeps its order: every entry is replaced
\* by its updated record
Replace(species, updated) ==
    [i \in 1..Len(species) |->
        IF \E k \in 1..Len(updated) : updated[k].id = species[i].id
        THEN updated[CHOOSE k \in 1..Len(updated) : updated[k].id = species[i].id]
        ELSE species[i]]

GrownPlants(species, season) ==
    [i \in 1..Len(OfType(species, "plant")) |->
        updateLogisticGrowth(OfType(species, "plant")[i], ResourceMultiplier(season))]
FedPredators(predators, preys) ==
    [i \in 1..Len(predators) |-> updatePredatorPopulation(predators[i], preys)]
EcosystemAfter(ecosystem, afterPreys, predators) ==
    LET species == Replace(ecosystem.species,
                       afterPreys.plants \o afterPreys.preys
                       \o FedPredators(predators, afterPreys.preys))
    IN  [ecosystem EXCEPT !.species = species, !.stability = updateStability(species)]

\* updateEcosystem: plants, then preys, then predators, then the stability
updateEcosystem(ecosystem, season) ==
    EcosystemAfter(ecosystem,
                   UpdatePreys(OfType(ecosystem.species, "prey"),
                               OfType(ecosystem.species, "predator"),
                               GrownPlants(ecosystem.species, season), 1),
                   OfType(ecosystem.species, "predator"))

PopulationOf(ecosystem, speciesId) ==
    LET hits == SelectSeq(ecosystem.species, LAMBDA s : s.id = speciesId)
    IN  IF hits = <<>> THEN -1 ELSE hits[1].population
Populations(ecos) ==
    [id \in DOMAIN ecos |->
        [i \in 1..Len(ecos[id].species) |-> ecos[id].species[i].population]]

NoEcosystemLog == [op |-> "none", before |-> <<>>, hunts |-> 0]

\* Ecosystem.update()
EcosystemUpdateStep ==
    /\ ecosystemTicks < MaxEcosystemTicks
    /\ ecosystems' = [id \in DOMAIN ecosystems |->
                         updateEcosystem(ecosystems[id], globalState.season)]
    /\ ecosystemLog' = [op |-> "update", before |-> Populations(ecosystems),
                        hunts |-> ecosystemLog.hunts]
    /\ ecosystemTicks' = ecosystemTicks + 1
    /\ UNCHANGED locations
EcosystemUpdate ==
    /\ EcosystemUpdateStep
    /\ UNCHANGED <<worldVars, relVars, diseaseVars, utilityVars, turnVars, economyVars,
                   weatherVars, feedbackVars, gameVars>>

\* hunt(locationId, speciesId, quantity): at most a tenth of the population,
\* and nothing when less than one animal would be caught
caughtNoCap(available, quantity) == quantity
caught(available, quantity) == Min(quantity, available \div 10)
HuntFails(ecos, locationId, speciesId, quantity) ==
    \/ locationId \notin DOMAIN ecos
    \/ ~\E i \in 1..Len(ecos[locationId].species) :
            /\ ecos[locationId].species[i].id = speciesId
            /\ ecos[locationId].species[i].type # "plant"
    \/ caught(PopulationOf(ecos[locationId], speciesId), quantity) < 100
HuntedSpecies(species, speciesId, quantity) ==
    [i \in 1..Len(species) |->
        IF species[i].id = speciesId
        THEN [species[i] EXCEPT !.population = @ - caught(@, quantity)]
        ELSE species[i]]
hunt(ecos, locationId, speciesId, quantity) ==
    IF HuntFails(ecos, locationId, speciesId, quantity) THEN ecos
    ELSE [ecos EXCEPT ![locationId].species = HuntedSpecies(@, speciesId, quantity)]

HuntPlaces == {"village1", "wilderness", "capital"}
HuntSpecies == {"grass", "deer", "wolf", "dragon"}
HuntQuantities == {300, 10000}
Hunt ==
    /\ ecosystemLog.hunts < MaxHunts
    /\ \E locationId \in HuntPlaces, speciesId \in HuntSpecies, quantity \in HuntQuantities :
          /\ ecosystems' = hunt(ecosystems, locationId, speciesId, quantity)
          /\ ecosystemLog' = [op |-> "hunt", before |-> Populations(ecosystems),
                              hunts |-> ecosystemLog.hunts + 1]
    /\ UNCHANGED <<ecosystemTicks, locations, worldVars, relVars, diseaseVars, utilityVars,
                   turnVars, economyVars, weatherVars, feedbackVars, gameVars>>

\* ================================================================ Weather
\* Temperature and wind speed are in tenths, humidity and visibility in
\* hundredths, the transition weights in ten-thousandths.
WeatherTypes == <<"clear", "cloudy", "rain", "storm", "snow", "fog">>

TRANSITION_MATRIX ==
    [clear  |-> [clear |-> 6000, cloudy |-> 3000, rain |-> 500, storm |-> 100, snow |-> 200, fog |-> 200],
     cloudy |-> [clear |-> 3000, cloudy |-> 4000, rain |-> 2000, storm |-> 500, snow |-> 300, fog |-> 200],
     rain   |-> [clear |-> 1000, cloudy |-> 3000, rain |-> 4000, storm |-> 1500, snow |-> 200, fog |-> 300],
     storm  |-> [clear |-> 500, cloudy |-> 2000, rain |-> 5000, storm |-> 2000, snow |-> 200, fog |-> 300],
     snow   |-> [clear |-> 2000, cloudy |-> 3000, rain |-> 500, storm |-> 200, snow |-> 4000, fog |-> 300],
     fog    |-> [clear |-> 4000, cloudy |-> 3000, rain |-> 1000, storm |-> 200, snow |-> 300, fog |-> 1500]]

SEASONAL_TEMPS ==
    [spring |-> [base |-> 15, amplitude |-> 10], summer |-> [base |-> 25, amplitude |-> 8],
     autumn |-> [base |-> 12, amplitude |-> 12], winter |-> [base |-> -2, amplitude |-> 15]]

\* the values Math.random() takes here, in tenths: 0 and a half for the
\* noise terms, and four values that reach every floor of the duration
NoiseDraws == {0, 5}
DurationDraws == {0, 3, 5, 9}
\* Math.random() of getNextWeatherType, in hundredths: every twentieth, and
\* the values that fall on the narrow weights of storm, snow and fog
TypeDraws == {5 * k : k \in 0..19} \cup {96, 97, 99}

\* randomRange(min, max) = min + Math.random() * (max - min)
randomRange(min, max, u) == min + ((u * (max - min)) \div 10)

createInitialWeather ==
    [type |-> "clear", temperature |-> 200, humidity |-> 50, windSpeed |-> 100,
     visibility |-> 100, duration |-> 3]

\* initializeLocations: every location gets a copy of the global weather
initializeLocations(locs) == [id \in LocationIds(locs) |-> createInitialWeather]

\* the seasonal correction of getNextWeatherType
AdjustedWeights(current, season) ==
    LET t == TRANSITION_MATRIX[current]
    IN  CASE season = "winter" -> [t EXCEPT !.snow = @ * 3, !.rain = @ \div 2]
          [] season = "summer" -> [t EXCEPT !.snow = 0, !.storm = (@ * 3) \div 2]
          [] OTHER -> t

RECURSIVE SumWeights(_, _)
SumWeights(adjusted, i) ==
    IF i > Len(WeatherTypes) THEN 0 ELSE adjusted[WeatherTypes[i]] + SumWeights(adjusted, i + 1)

\* the loop over Object.entries(adjusted): the first type at which the
\* running remainder is <= 0, and 'clear' when none is
RECURSIVE PickType(_, _, _)
PickType(adjusted, random, i) ==
    IF i > Len(WeatherTypes) THEN "clear"
    ELSE IF random - adjusted[WeatherTypes[i]] <= 0 THEN WeatherTypes[i]
    ELSE PickType(adjusted, random - adjusted[WeatherTypes[i]], i + 1)

getNextWeatherType(current, season, q) ==
    LET adjusted == AdjustedWeights(current, season)
    IN  PickType(adjusted, (q * SumWeights(adjusted, 1)) \div 100, 1)

\* Math.sin(2 * PI * dayOfYear / 365) in thousandths, by Bhaskara's
\* rational approximation over half-days (error below 0.002)
AnnualSine(dayOfYear) ==
    LET h == (2 * dayOfYear) % 730
        x == IF h <= 365 THEN h ELSE h - 365
        v == (16000 * x * (365 - x)) \div (5 * 365 * 365 - 4 * x * (365 - x))
    IN  IF h <= 365 THEN v ELSE -v

WeatherMod(type) ==
    CASE type = "rain" -> -30 [] type = "storm" -> -50 [] type = "snow" -> -100
      [] type = "clear" -> 20 [] OTHER -> 0

calculateTemperature(type, season, dayOfYear, u) ==
    SEASONAL_TEMPS[season].base * 10
        + ((SEASONAL_TEMPS[season].amplitude * AnnualSine(dayOfYear)) \div 100)
        + randomRange(-50, 50, u) + WeatherMod(type)

adjustWeatherProperties(weather, u) ==
    CASE weather.type = "clear" ->
            [weather EXCEPT !.humidity = randomRange(30, 50, u),
                            !.windSpeed = randomRange(50, 150, u), !.visibility = 100]
      [] weather.type = "cloudy" ->
            [weather EXCEPT !.humidity = randomRange(50, 70, u),
                            !.windSpeed = randomRange(100, 200, u), !.visibility = 80]
      [] weather.type = "rain" ->
            [weather EXCEPT !.humidity = randomRange(70, 90, u),
                            !.windSpeed = randomRange(150, 300, u), !.visibility = 50]
      [] weather.type = "storm" ->
            [weather EXCEPT !.humidity = randomRange(80, 100, u),
                            !.windSpeed = randomRange(400, 800, u), !.visibility = 20]
      [] weather.type = "snow" ->
            [weather EXCEPT !.humidity = randomRange(60, 80, u),
                            !.windSpeed = randomRange(100, 250, u), !.visibility = 40]
      [] weather.type = "fog" ->
            [weather EXCEPT !.humidity = randomRange(90, 100, u),
                            !.windSpeed = randomRange(0, 50, u), !.visibility = 10]

\* a duration that is drawn from 2 up to 9
newDurationLong(d) == randomRange(20, 90, d) \div 10

\* Math.floor(randomRange(2, 6))
newDuration(d) == randomRange(20, 60, d) \div 10

\* updateGlobalWeather resamples when the decremented duration is <= 0
Resampled(weather) == weather.duration - 1 <= 0

\* updateGlobalWeather: q, d and u are the draws of the type, of the
\* duration and of the noise terms
updateGlobalWeather(weather, gs, q, d, u) ==
    LET w1 == IF Resampled(weather)
              THEN [weather EXCEPT !.type = getNextWeatherType(weather.type, gs.season, q),
                                   !.duration = newDuration(d)]
              ELSE [weather EXCEPT !.duration = @ - 1]
        w2 == [w1 EXCEPT !.temperature =
                  calculateTemperature(w1.type, gs.season, gs.dayOfYear, u)]
    IN  adjustWeatherProperties(w2, u)

\* the global weather with the local noise
LocalNoise(weather, global, u) ==
    [weather EXCEPT
        !.type = global.type,
        !.temperature = global.temperature + randomRange(-30, 30, u),
        !.humidity = clamp(global.humidity + randomRange(-10, 10, u), 0, 100),
        !.windSpeed = Max(0, global.windSpeed + randomRange(-50, 50, u)),
        !.visibility = clamp(global.visibility + randomRange(-10, 10, u), 0, 100)]

\* a local update that treats no place as indoors
updateLocalWeatherOutdoors(location, weather, global, u) == LocalNoise(weather, global, u)

\* updateLocalWeather of a location the world holds: the global weather
\* with noise, and for a dungeon clear, no wind and 15 degrees
updateLocalWeather(location, weather, global, u) ==
    IF location.type = "dungeon"
    THEN [LocalNoise(weather, global, u) EXCEPT
             !.type = "clear", !.windSpeed = 0, !.temperature = 150]
    ELSE LocalNoise(weather, global, u)

\* ticks counts the Weather.update calls, age those since the regime began,
\* lasted the age the previous regime had when the latest call resampled it
NoWeatherLog == [ticks |-> 0, age |-> 0, resampled |-> FALSE, lasted |-> 0]

\* Weather.update()
WeatherUpdateStep ==
    /\ weatherLog.ticks < MaxWeatherTicks
    /\ \E q \in TypeDraws : \E d \in DurationDraws : \E u \in NoiseDraws :
          LET global == updateGlobalWeather(globalWeather, globalState, q, d, u)
          IN  /\ globalWeather' = global
              /\ weatherByLocation' =
                    [id \in DOMAIN weatherByLocation |->
                        IF id \in LocationIds(locations)
                        THEN updateLocalWeather(getLocation(locations, id),
                                                weatherByLocation[id], global, u)
                        ELSE weatherByLocation[id]]
    /\ weatherLog' = IF Resampled(globalWeather)
                     THEN [ticks |-> weatherLog.ticks + 1, age |-> 0, resampled |-> TRUE,
                           lasted |-> weatherLog.age + 1]
                     ELSE [ticks |-> weatherLog.ticks + 1, age |-> weatherLog.age + 1,
                           resampled |-> FALSE, lasted |-> 0]

WeatherUpdate ==
    /\ WeatherUpdateStep
    /\ UNCHANGED <<worldVars, relVars, diseaseVars, utilityVars, turnVars, locations,
                   economyVars, ecosystemVars, feedbackVars, gameVars>>

\* ------------------------------------------------- places of the sample world
\* createGame's capital and village, and the wilderness the analysis adds
\* (stability in thousandths)
Capital ==
    [id |-> "capital", type |-> "city", resources |-> 1000, population |-> 50000,
     stability |-> 800, connectedTo |-> <<"village1", "castle">>]
Village1 ==
    [id |-> "village1", type |-> "village", resources |-> 200, population |-> 500,
     stability |-> 600, connectedTo |-> <<"capital", "wilderness">>]
Wilderness ==
    [id |-> "wilderness", type |-> "wilderness", resources |-> 100, population |-> 0,
     stability |-> 300, connectedTo |-> <<"village1">>]
\* ----------------------------------------------------------- LevelSystem
\* a Character field that was never assigned (undefined)
Undefined == -1

\* bound on the experience a player collects
MaxExperience == 900

\* LevelSystem's constants
BASE_EXP == 100
STAT_POINTS_PER_LEVEL == 5
SKILL_POINTS_PER_LEVEL == 1
HP_PER_LEVEL == 10
MP_PER_LEVEL == 5

\* the integer part of the square root of n, n <= limit * limit
FloorSqrt(n, limit) == CHOOSE r \in 0..limit : r * r <= n /\ (r + 1) * (r + 1) > n

\* getExpForLevel(level): Math.floor(BASE_EXP * Math.pow(level, 1.5))
getExpForLevel(level) ==
    FloorSqrt(BASE_EXP * BASE_EXP * level * level * level, BASE_EXP * level * level)

\* a Character as createCharacter leaves it: no stats, no level fields
NewPlayer ==
    [level |-> Undefined, experience |-> Undefined, expToNextLevel |-> Undefined,
     statPoints |-> Undefined, skillPoints |-> Undefined,
     maxHp |-> Undefined, currentHp |-> Undefined, maxMp |-> Undefined, currentMp |-> Undefined]

\* !x for an optional number: undefined and 0 are both falsy
Falsy(x) == x = Undefined \/ x = 0

\* x || 0
OrZero(x) == IF Falsy(x) THEN 0 ELSE x

\* LevelSystem.initializePlayerStats(character): fills what is undefined
initializePlayerStats(c) ==
    LET hasStats == c.maxHp # Undefined
    IN  [level |-> IF c.level = Undefined THEN 1 ELSE c.level,
         experience |-> IF c.experience = Undefined THEN 0 ELSE c.experience,
         expToNextLevel |-> IF c.expToNextLevel = Undefined THEN getExpForLevel(2)
                            ELSE c.expToNextLevel,
         statPoints |-> IF c.statPoints = Undefined THEN 0 ELSE c.statPoints,
         skillPoints |-> IF c.skillPoints = Undefined THEN 0 ELSE c.skillPoints,
         maxHp |-> IF hasStats THEN c.maxHp ELSE 100,
         currentHp |-> IF hasStats THEN c.currentHp ELSE 100,
         maxMp |-> IF hasStats THEN c.maxMp ELSE 50,
         currentMp |-> IF hasStats THEN c.currentMp ELSE 50]

\* no level-up happened: addExperience returned null
NoReward == [level |-> 0, statPoints |-> 0, skillPoints |-> 0, hpBonus |-> 0, mpBonus |-> 0]

\* LevelSystem.levelUp(character): the character after it and the reward,
\* consecutive level-ups included (called with level and stats defined)
RECURSIVE levelUp(_)
levelUp(c) ==
    LET excessExp == OrZero(c.experience) - OrZero(c.expToNextLevel)
        raised == [c EXCEPT !.level = c.level + 1,
                            !.expToNextLevel = getExpForLevel(c.level + 2),
                            !.experience = Max(0, excessExp),
                            !.statPoints = OrZero(c.statPoints) + STAT_POINTS_PER_LEVEL,
                            !.skillPoints = OrZero(c.skillPoints) + SKILL_POINTS_PER_LEVEL,
                            !.maxHp = c.maxHp + HP_PER_LEVEL,
                            !.maxMp = c.maxMp + MP_PER_LEVEL,
                            !.currentHp = c.maxHp + HP_PER_LEVEL,
                            !.currentMp = c.maxMp + MP_PER_LEVEL]
        reward == [level |-> raised.level, statPoints |-> STAT_POINTS_PER_LEVEL,
                   skillPoints |-> SKILL_POINTS_PER_LEVEL,
                   hpBonus |-> HP_PER_LEVEL, mpBonus |-> MP_PER_LEVEL]
    IN  IF raised.experience >= raised.expToNextLevel
        THEN LET next == levelUp(raised)
             IN  [character |-> next.character,
                  reward |-> [reward EXCEPT
                      !.statPoints = @ + next.reward.statPoints,
                      !.skillPoints = @ + next.reward.skillPoints,
                      !.hpBonus = @ + next.reward.hpBonus,
                      !.mpBonus = @ + next.reward.mpBonus]]
        ELSE [character |-> raised, reward |-> reward]

\* LevelSystem.addExperience(character, amount): the character after it and
\* the reward, NoReward standing for null
addExperience(c, amount) ==
    IF Falsy(c.experience) \/ Falsy(c.expToNextLevel) \/ Falsy(c.level)
    THEN [character |-> c, reward |-> NoReward]
    ELSE LET gained == [c EXCEPT !.experience = c.experience + amount]
         IN  IF gained.experience >= gained.expToNextLevel
             THEN levelUp(gained)
             ELSE [character |-> gained, reward |-> NoReward]

\* ----------------------------------------------------- MultiplayerManager
\* number of browsers that open the game
MaxPeers == 3

\* the PeerJS ids, numbered in the alphabetical order Array.sort() gives them
PeerIds == 1..MaxPeers

\* hostId === null
NoHost == 0

\* new MultiplayerManager(name), once the peer is open and has its id; alive
\* and created observe the browser: still open, and the one that ran createRoom
NewPeer ==
    [alive |-> TRUE, created |-> FALSE, hostId |-> NoHost, players |-> {},
     connections |-> {}]

\* the messages of MessageType the room exchanges
Msg(type, id, players, hostId) ==
    [type |-> type, id |-> id, players |-> players, hostId |-> hostId]

\* conn.send(msg) on the connection from -> to; nothing reaches a closed browser
Send(ps, ch, from, to, msg) ==
    IF ps[to].alive THEN [ch EXCEPT ![<<from, to>>] = Append(@, msg)] ELSE ch

\* broadcast(msg, excludeId): to every connection but the excluded one
RECURSIVE broadcast(_, _, _, _, _, _)
broadcast(ps, ch, me, msg, excludeId, todo) ==
    IF todo = {} THEN ch
    ELSE LET id == CHOOSE x \in todo : TRUE
         IN  broadcast(ps, IF id # excludeId THEN Send(ps, ch, me, id, msg) ELSE ch,
                       me, msg, excludeId, todo \ {id})

\* isHost()
isHost(ps, me) == ps[me].hostId = me

\* remainingPlayers.sort()[0]
FirstSorted(ids) == CHOOSE x \in ids : \A y \in ids : x <= y

\* handleMessage(msg, senderId) run by peer me: the peers and channels after it
handleMessage(ps, ch, me, msg, senderId) ==
    CASE msg.type = "join" ->
            IF isHost(ps, me)
            THEN LET welcomed == IF senderId \in ps[me].connections
                                 THEN Send(ps, ch, me, senderId,
                                           Msg("welcome", NoHost, ps[me].players, me))
                                 ELSE ch
                 IN  [peers |-> [ps EXCEPT ![me].players = @ \cup {senderId}],
                      channels |-> broadcast(ps, welcomed, me,
                                             Msg("player_joined", senderId, {}, NoHost),
                                             senderId, ps[me].connections)]
            ELSE [peers |-> ps, channels |-> ch]
      [] msg.type = "welcome" ->
            [peers |-> [ps EXCEPT ![me].hostId = msg.hostId,
                                  ![me].players = msg.players \cup {me}],
             channels |-> ch]
      [] msg.type = "player_joined" ->
            [peers |-> [ps EXCEPT ![me].players = @ \cup {msg.id}], channels |-> ch]
      [] msg.type = "player_left" ->
            [peers |-> [ps EXCEPT ![me].players = @ \ {msg.id},
                                  ![me].hostId = IF msg.hostId # NoHost THEN msg.hostId
                                                 ELSE @],
             channels |-> ch]

\* handleDisconnect(peerId) run by peer me: the peers and channels after it
handleDisconnect(ps, ch, me, peerId) ==
    LET left == [ps EXCEPT ![me].players = @ \ {peerId},
                           ![me].connections = @ \ {peerId}]
    IN  IF isHost(left, me)
        THEN [peers |-> left,
              channels |-> broadcast(left, ch, me, Msg("player_left", peerId, {}, NoHost),
                                     NoHost, left[me].connections)]
        ELSE IF peerId = left[me].hostId /\ left[me].players # {}
        THEN [peers |-> [left EXCEPT ![me].hostId = FirstSorted(left[me].players)],
              channels |-> ch]
        ELSE [peers |-> left, channels |-> ch]

\* no browser has opened the multiplayer screen
NoRoom == [p \in PeerIds |-> NewPeer]
NoChannels == [c \in PeerIds \X PeerIds |-> <<>>]

\* ------------------------------------------------------------- SaveSystem
\* number of saveGame calls explored
MaxSaves == 1

\* no save file has been written
NoSave == [count |-> 0]

\* serializeRelations(world): every ordered pair of different characters is
\* read through getRelation (which creates it when absent) and listed when
\* its trust, fear or debt is not 0; the list and the graph as the reads leave it
RECURSIVE serializeRelations(_, _, _)
serializeRelations(g, pairs, acc) ==
    IF pairs = <<>> THEN [g |-> g, relations |-> acc]
    ELSE LET f   == Head(pairs)[1]
             t   == Head(pairs)[2]
             g1  == EnsureRelation(g, f, t)
             rel == RelationOf(g1, f, t)
         IN  serializeRelations(g1, Tail(pairs),
                 IF rel.trust # 0 \/ rel.fear # 0 \/ rel.debt # 0
                 THEN Append(acc, [from |-> f, to |-> t, trust |-> rel.trust,
                                   fear |-> rel.fear, debt |-> rel.debt])
                 ELSE acc)

\* the pairs in the order of serializeRelations' two loops over getAllCharacters()
RECURSIVE CharacterPairs(_, _, _)
CharacterPairs(outer, all, acc) ==
    IF outer = <<>> THEN acc
    ELSE CharacterPairs(Tail(outer), all,
             acc \o [i \in 1..Len(SelectSeq(all, LAMBDA c : c # Head(outer))) |->
                        <<Head(outer), SelectSeq(all, LAMBDA c : c # Head(outer))[i]>>])

\* the relation part of restoreToWorld: one updateRelation per saved relation
RECURSIVE restoreRelations(_, _)
restoreRelations(g, relations) ==
    IF relations = <<>> THEN g
    ELSE restoreRelations(
             updateRelation(g, Head(relations).from, Head(relations).to,
                            [trust |-> Head(relations).trust, fear |-> Head(relations).fear,
                             debt |-> Head(relations).debt]),
             Tail(relations))

\* the character part of restoreToWorld: Object.assign onto the characters
\* that still exist
restoreCharacters(chs, savedChs) ==
    [c \in DOMAIN chs |-> IF c \in DOMAIN savedChs THEN savedChs[c] ELSE chs[c]]

\* ----------------------------------------------------------------- Combat
\* bound on the turn counter of a combat
MaxCombatTurns == 3

\* new Combat(world): active, with no combatant and no turn order
NoCombat ==
    [state |-> "active", combatants |-> <<>>, order |-> <<>>, turnOrder |-> <<>>,
     currentTurn |-> 0, log |-> <<>>]

\* getCurrentActor() === null, and the undefined of an empty turn order
NullActor == "none"

\* the CombatLogEntry addLog pushes (the message is left out)
LogEntry(turn, actor, action, target, damage) ==
    [turn |-> turn, actor |-> actor, action |-> action, target |-> target,
     damage |-> damage]

\* initCombatant(characterId): hp = maxHp = power * 10 + 50; an id without a
\* character is skipped, a repeated id keeps its place in the Map
initCombatant(cb, chs, id) ==
    IF id \notin DOMAIN chs THEN cb
    ELSE LET fresh == [hp |-> chs[id].power * 10 + 50, maxHp |-> chs[id].power * 10 + 50,
                       isDefending |-> FALSE]
         IN  [cb EXCEPT !.combatants = (id :> fresh) @@ cb.combatants,
                        !.order = IF Contains(cb.order, id) THEN @ ELSE Append(@, id)]

\* determineTurnOrder(): the (at most two) combatants by descending courage,
\* equal courage keeping the Map's order
determineTurnOrder(cb, chs) ==
    IF Len(cb.order) = 2
       /\ chs[cb.order[2]].personality.courage > chs[cb.order[1]].personality.courage
    THEN <<cb.order[2], cb.order[1]>>
    ELSE cb.order

\* startCombat(attackerId, defenderId)
startCombat(chs, attackerId, defenderId) ==
    LET cleared == [NoCombat EXCEPT !.state = "active"]
        joined  == initCombatant(initCombatant(cleared, chs, attackerId), chs, defenderId)
    IN  [joined EXCEPT !.turnOrder = determineTurnOrder(joined, chs),
                       !.log = <<LogEntry(0, attackerId, "attack", NoTarget, 0)>>]

\* getCurrentActor()
getCurrentActor(cb) ==
    IF cb.state # "active" \/ Len(cb.turnOrder) = 0 THEN NullActor
    ELSE cb.turnOrder[(cb.currentTurn % Len(cb.turnOrder)) + 1]

\* getOpponent(actorId): the first other combatant with hp left
getOpponent(cb, actorId) ==
    FirstOf(SelectSeq(cb.order, LAMBDA id : id # actorId /\ cb.combatants[id].hp > 0))

\* executeAttack(actorId, targetId); roll is randomRange(0.8, 1.2) in hundredths
executeAttack(cb, chs, actorId, targetId, roll) ==
    LET target == IF targetId # NoTarget
                  THEN (IF targetId \in DOMAIN cb.combatants THEN targetId ELSE "none")
                  ELSE getOpponent(cb, actorId)
    IN  IF target = "none" THEN cb
        ELSE LET raw == (chs[actorId].power * roll
                            * (1000 + 3 * chs[actorId].personality.courage)) \div 100000
                 damage == IF cb.combatants[target].isDefending THEN raw \div 2 ELSE raw
             IN  [cb EXCEPT !.combatants[target].hp = Max(0, @ - damage),
                            !.log = Append(@, LogEntry(cb.currentTurn, actorId, "attack",
                                                       target, damage))]

\* executeDefend(actorId)
executeDefend(cb, actorId) ==
    [cb EXCEPT !.combatants[actorId].isDefending = TRUE,
               !.log = Append(@, LogEntry(cb.currentTurn, actorId, "defend", NoTarget, 0))]

\* executeFlee(actorId); fled is the outcome of rollSuccess(fleeChance)
executeFlee(cb, actorId, fled) ==
    [cb EXCEPT !.state = IF fled THEN "fled" ELSE @,
               !.log = Append(@, LogEntry(cb.currentTurn, actorId, "flee", NoTarget, 0))]

\* checkCombatEnd()
checkCombatEnd(cb) ==
    LET alive == {id \in DOMAIN cb.combatants : cb.combatants[id].hp > 0}
    IN  IF Cardinality(alive) = 1 THEN [cb EXCEPT !.state = "victory"]
        ELSE IF Cardinality(alive) = 0 THEN [cb EXCEPT !.state = "draw"]
        ELSE cb

\* executeAction(actorId, action, targetId)
executeAction(cb, chs, actorId, action, targetId, roll, fled) ==
    IF cb.state # "active" THEN cb
    ELSE IF actorId \notin DOMAIN cb.combatants THEN cb
    ELSE LET ready == [cb EXCEPT !.combatants[actorId].isDefending = FALSE]
             acted == CASE action = "attack" -> executeAttack(ready, chs, actorId, targetId, roll)
                        [] action = "defend" -> executeDefend(ready, actorId)
                        [] action = "flee" -> executeFlee(ready, actorId, fled)
             ended == checkCombatEnd(acted)
         IN  IF ended.state = "active"
             THEN [ended EXCEPT !.currentTurn = @ + 1]
             ELSE ended

SampleLocations == <<Capital, Village1, Wilderness>>

\* new Weather(world) and new FeedbackLoop(world)
InitTrackers ==
    /\ globalWeather = createInitialWeather
    /\ weatherByLocation = initializeLocations(locations)
    /\ weatherLog = NoWeatherLog
    /\ accumulatedChanges = <<>>
    /\ player = NewPlayer
    /\ peers = NoRoom
    /\ channels = NoChannels
    /\ saved = NoSave
    /\ combat = NoCombat

\* new Economy(world) and new Ecosystem(world) over the world's places
InitSimulators(locs, sf, df) ==
    /\ locations = locs
    /\ markets = initializeMarkets(locs, sf, df)
    /\ inflationRate = 0
    /\ economyLog = NoEconomyLog
    /\ economyTicks = 0
    /\ ecosystems = initializeEcosystems(locs)
    /\ ecosystemLog = NoEcosystemLog
    /\ ecosystemTicks = 0
    /\ InitTrackers

\* a world without places: no market and no ecosystem
InitNoPlaces == InitSimulators(<<>>, 10, 10)

\* ======================================================== the turn's steps
\* The statements each orchestrator runs per turn, in order.
\*   GameCore.processTurn; between two calls the handler awaits player input.
\*   GameLoop: startTurn, then endTurn (advanceTime, generateNPCActions,
\*     processEvents, detectInstability); it owns no simulator.
\*   The 100-turn analysis loop: one synchronous for loop, never yielding.
Program ==
    [GameCore |-> <<"advanceTime", "economy", "ecosystem", "weather", "disease",
                    "autonomous", "npcActions", "generateEvents", "checkThresholds">>,
     GameLoop |-> <<"startTurn", "advanceTime", "npcActions", "generateEvents",
                    "checkThresholds", "nextPhase">>,
     Analysis |-> <<"advanceTime", "economy", "ecosystem", "weather", "disease",
                    "npcActions", "generateEvents", "checkThresholds">>]

Orchestrators == DOMAIN Program

BetweenTurns == pc > Len(Program[orchestrator])

\* the statement the orchestrator runs next: the first one of the next turn
\* when the previous turn is over
Cursor == IF BetweenTurns THEN 1 ELSE pc

Advance(step) ==
    /\ orchestrator \in Orchestrators
    /\ Program[orchestrator][Cursor] = step
    /\ pc' = Cursor + 1
    /\ turnLog' = IF Cursor = 1 THEN <<step>> ELSE Append(turnLog, step)
    /\ UNCHANGED orchestrator

\* GameLoop.startTurn(): clearRecentEvents()
TurnStart ==
    /\ Advance("startTurn")
    /\ time < MaxTime
    /\ recentEvents' = clearRecentEvents(recentEvents)
    /\ UNCHANGED <<simVars, worldVars, relVars, diseaseVars, utilityVars,
                   timers, firedPrev, firedNow, blockedFor>>

\* world.advanceTime()
TurnAdvanceTime ==
    /\ Advance("advanceTime")
    /\ AdvanceTimeStep
    /\ UNCHANGED eventVars

\* economy.update(), ecosystem.update(), weather.update(): each writes the
\* simulator's own markets, populations and weather, none of which the rest
\* of the turn reads
TurnEconomy ==
    /\ Advance("economy")
    /\ EconomyUpdateStep
    /\ UNCHANGED <<worldVars, relVars, diseaseVars, utilityVars, eventVars, ecosystemVars,
                   weatherVars, feedbackVars, gameVars>>

TurnEcosystem ==
    /\ Advance("ecosystem")
    /\ EcosystemUpdateStep
    /\ UNCHANGED <<worldVars, relVars, diseaseVars, utilityVars, eventVars, economyVars,
                   weatherVars, feedbackVars, gameVars>>

TurnWeather ==
    /\ Advance("weather")
    /\ UNCHANGED <<simVars, worldVars, relVars, diseaseVars, utilityVars, eventVars>>

\* disease.update()
TurnDisease ==
    /\ Advance("disease")
    /\ DiseaseUpdateStep
    /\ UNCHANGED eventVars

\* GameCore.processNPCAutonomousActions()
TurnAutonomous ==
    /\ Advance("autonomous")
    /\ edges' \in processNPCAutonomousActions(
                      SelectSeq(getAllCharacters(characters), LAMBDA c : c # PlayerId),
                      characters, edges)
    /\ UNCHANGED <<simVars, worldVars, clusters, lastQuery, nWrites, written, diseaseVars, utilityVars, eventVars>>

\* eventGenerator.generateNPCActions()
TurnNPCActions ==
    /\ Advance("npcActions")
    /\ LET npcs == SelectSeq(getAllCharacters(characters),
                             LAMBDA c : ~characters[c].isPlayer)
       IN  \E o \in generateNPCActions(npcs, npcs, characters, edges) :
               /\ characters' = o.chs
               /\ edges' = o.g
    /\ UNCHANGED <<simVars, time, history, globalState, clusters, lastQuery, nWrites, written, diseaseVars,
                   utilityVars, eventVars>>

\* eventGenerator.generateEvents() when its rolls come out as rolls
GenerateEventsWith(rolls) ==
    LET r == generateEvents(characters, globalState, edges, history, time,
                            recentEvents, timers, rolls)
    IN  /\ r.valid
        /\ edges' = r.g
        /\ history' = r.history
        /\ recentEvents' = r.recent
        /\ timers' = r.timers
        /\ firedPrev' = firedNow
        /\ firedNow' = r.fired
        /\ blockedFor' = [t \in TriggerIds |->
                             IF t \in r.skipped THEN blockedFor[t] + 1 ELSE 0]

\* eventGenerator.generateEvents(): every outcome of its rolls
GenerateEventsStep == \E rolls \in [TriggerIds -> BOOLEAN] : GenerateEventsWith(rolls)

TurnGenerateEvents ==
    /\ Advance("generateEvents")
    /\ GenerateEventsStep
    /\ UNCHANGED <<simVars, time, characters, globalState, clusters, lastQuery, nWrites, written, diseaseVars,
                   utilityVars>>

\* feedbackLoop.checkThresholds()
TurnCheckThresholds ==
    /\ Advance("checkThresholds")
    /\ history' = checkThresholds(ThresholdIds, characters, edges, history, time)
    /\ UNCHANGED <<simVars, time, characters, globalState, relVars, diseaseVars, utilityVars,
                   eventVars>>

\* the detectInstability() call that ends GameLoop.endTurn()
TurnNextPhase ==
    /\ Advance("nextPhase")
    /\ edges' = detectInstability(characters, edges).g
    /\ UNCHANGED <<simVars, worldVars, clusters, lastQuery, nWrites, written, diseaseVars, utilityVars, eventVars>>

\* A pending zero-delay callback runs: recentEvents.delete(trigger.id).
\* Timers run only when the call stack is empty: never inside a turn, and
\* never between the turns of the synchronous analysis loop.  Between two
\* turns of GameCore (an awaited prompt) or of GameLoop (whatever its caller
\* does) a pending callback may or may not get to run.
TimerFire(id) ==
    /\ orchestrator \in {"GameCore", "GameLoop"}
    /\ BetweenTurns
    /\ id \in timers
    /\ timers' = timers \ {id}
    /\ recentEvents' = recentEvents \ {id}
    /\ UNCHANGED <<simVars, worldVars, relVars, diseaseVars, utilityVars,
                   orchestrator, pc, turnLog, firedPrev, firedNow, blockedFor>>

\* new EventGenerator(world), with no orchestrator running
InitEvents ==
    /\ orchestrator = "none"
    /\ pc = 1
    /\ turnLog = <<>>
    /\ recentEvents = {}
    /\ timers = {}
    /\ firedPrev = {}
    /\ firedNow = {}
    /\ blockedFor = [t \in TriggerIds |-> 0]

\* ------------------------------------------------ relation-graph operations
NoResult == [threshold |-> 0, groups |-> <<>>, fresh |-> FALSE]

\* inputs of the relation writes: magnitudes inside and far outside the ranges
RelUpdates ==
    {[trust |-> 10], [trust |-> 60], [trust |-> 200, fear |-> 300, respect |-> -400]}

RelDeltas ==
    {[trust |-> 200], [trust |-> -500], [fear |-> -300, respect |-> 250]}

RelEffects ==
    {[type |-> "relation", target |-> <<f, t>>, field |-> e[1], change |-> e[2],
      isRelative |-> e[3]] :
        f \in Chars, t \in Chars,
        e \in {<<"trust", 300, TRUE>>, <<"fear", -700, FALSE>>, <<"respect", 900, FALSE>>}}

\* getClusters' default, the alliance trigger's 0.4, and a threshold below the
\* trust of a default relation
Thresholds == {30, 40, -50}

NoQuery == [op |-> "none", before |-> EmptyGraph]

\* the record of the relation writes
NoWrites == [pairs |-> {}, latest |-> <<>>]
Wrote(f, t) == [pairs |-> written.pairs \cup {<<f, t>>}, latest |-> <<f, t>>]

UpdateRelation(f, t, u) ==
    /\ nWrites < MaxWrites
    /\ edges' = updateRelation(edges, f, t, u)
    /\ clusters' = NoResult
    /\ lastQuery' = NoQuery
    /\ nWrites' = nWrites + 1
    /\ written' = Wrote(f, t)
    /\ UNCHANGED <<simVars, worldVars, diseaseVars, utilityVars, turnVars>>

ModifyRelation(f, t, d) ==
    /\ nWrites < MaxWrites
    /\ edges' = modifyRelation(edges, f, t, d)
    /\ clusters' = NoResult
    /\ lastQuery' = NoQuery
    /\ nWrites' = nWrites + 1
    /\ written' = Wrote(f, t)
    /\ UNCHANGED <<simVars, worldVars, diseaseVars, utilityVars, turnVars>>

ApplyRelationEffect(effect) ==
    /\ nWrites < MaxWrites
    /\ edges' = applyRelationEffect(edges, effect)
    /\ clusters' = NoResult
    /\ lastQuery' = NoQuery
    /\ nWrites' = nWrites + 1
    /\ written' = Wrote(effect.target[1], effect.target[2])
    /\ UNCHANGED <<simVars, worldVars, diseaseVars, utilityVars, turnVars>>

\* eventId arguments of addHistory
EventIds == {"e1"}

AddHistory(f, t, eventId) ==
    /\ nWrites < MaxWrites
    /\ edges' = addHistory(edges, f, t, eventId)
    /\ clusters' = NoResult
    /\ lastQuery' = NoQuery
    /\ nWrites' = nWrites + 1
    /\ written' = Wrote(f, t)
    /\ UNCHANGED <<simVars, worldVars, diseaseVars, utilityVars, turnVars>>

GetClusters(threshold) ==
    LET r == getClusters(edges, threshold)
    IN  /\ edges' = r.g
        /\ clusters' = [threshold |-> threshold, groups |-> r.groups, fresh |-> TRUE]
        /\ lastQuery' = [op |-> "getClusters", before |-> edges]
        /\ UNCHANGED <<simVars, nWrites, written, worldVars, diseaseVars, utilityVars, turnVars>>

\* getRelation(from, to): the relation is created when absent
GetRelation(f, t) ==
    /\ edges' = EnsureRelation(edges, f, t)
    /\ lastQuery' = [op |-> "getRelation", before |-> edges]
    /\ UNCHANGED <<clusters, nWrites, written, simVars, worldVars, diseaseVars, utilityVars,
                   turnVars>>

\* getMostInfluential(limit) and getStats() only read the Maps
GetMostInfluential(limit) ==
    /\ lastQuery' = [op |-> "getMostInfluential", before |-> edges]
    /\ UNCHANGED <<edges, clusters, nWrites, written, simVars, worldVars, diseaseVars,
                   utilityVars, turnVars>>

GetStats ==
    /\ lastQuery' = [op |-> "getStats", before |-> edges]
    /\ UNCHANGED <<edges, clusters, nWrites, written, simVars, worldVars, diseaseVars,
                   utilityVars, turnVars>>

InitWorld ==
    /\ time = 0
    /\ characters = [c \in Chars |-> createCharacter([location |-> "capital"])]
    /\ history = <<>>
    /\ globalState = InitGlobalState

\* new Disease(world): every character of the world starts susceptible
InitDisease ==
    /\ healthStatuses = [c \in DOMAIN characters |-> NewHealthStatus]
    /\ activeOutbreaks = {}
    /\ enteredAt = [c \in DOMAIN characters |-> 0]
    /\ lastTransitions = [c \in DOMAIN characters |-> <<>>]

InitRel ==
    /\ InitWorld
    /\ InitDisease
    /\ utilityCall = NoCall
    /\ selection = NoSelection
    /\ lastCall = NoLastCall
    /\ InitEvents
    /\ InitNoPlaces
    /\ edges = EmptyGraph
    /\ clusters = NoResult
    /\ lastQuery = NoQuery
    /\ nWrites = 0
    /\ written = NoWrites

NextRel ==
    \/ \E f \in Chars : \E t \in Chars \ {f} : \E u \in RelUpdates : UpdateRelation(f, t, u)
    \/ \E f \in Chars : \E t \in Chars \ {f} : \E d \in RelDeltas : ModifyRelation(f, t, d)
    \/ \E e \in RelEffects : e.target[1] # e.target[2] /\ ApplyRelationEffect(e)
    \/ \E f \in Chars : \E t \in Chars \ {f} : \E e \in EventIds : AddHistory(f, t, e)
    \/ \E th \in Thresholds : GetClusters(th)

SpecRel == InitRel /\ [][NextRel]_vars

\* the queries of the relation graph, over graphs that writes have left:
\* none, one trusted relation, mutual trust between a and b, and a chain
QueryGraphs ==
    {EmptyGraph,
     updateRelation(EmptyGraph, "a", "b", [trust |-> 60, fear |-> 20]),
     updateRelation(updateRelation(EmptyGraph, "a", "b", [trust |-> 60]),
                    "b", "a", [trust |-> 50]),
     updateRelation(updateRelation(EmptyGraph, "a", "b", [trust |-> 60]),
                    "b", "c", [trust |-> 40, fear |-> 30])}
Limits == {1, 5}   \* limit arguments of getMostInfluential; 5 is the default

InitQuery ==
    /\ InitWorld
    /\ InitDisease
    /\ utilityCall = NoCall
    /\ selection = NoSelection
    /\ lastCall = NoLastCall
    /\ InitEvents
    /\ InitNoPlaces
    /\ edges \in QueryGraphs
    /\ clusters = NoResult
    /\ lastQuery = NoQuery
    /\ nWrites = 0
    /\ written = NoWrites

NextQuery ==
    \/ \E f \in Chars : \E t \in Chars \ {f} : GetRelation(f, t)
    \/ \E th \in Thresholds : GetClusters(th)
    \/ \E limit \in Limits : GetMostInfluential(limit)
    \/ GetStats

SpecQuery == InitQuery /\ [][NextQuery]_vars

\* applyEffect over the world of a, b and c: effects of every kind, aimed
\* at a character, at the id that names none, and at pairs holding it
EffectInputs ==
    {[type |-> "emotion", target |-> t, field |-> f, change |-> c, isRelative |-> r] :
        t \in {<<"a">>, <<"ghost">>}, f \in {"fear", "hunger"}, c \in {3000, 20000}, r \in BOOLEAN}
    \cup {[type |-> "relation", target |-> t, field |-> "trust", change |-> 30, isRelative |-> r] :
        t \in {<<"a", "b">>, <<"ghost", "a">>, <<"a", "ghost">>}, r \in BOOLEAN}
    \cup {[type |-> "resource", target |-> t, field |-> "resources", change |-> 50, isRelative |-> r] :
        t \in {<<"a">>, <<"ghost">>}, r \in BOOLEAN}
    \cup {[type |-> "stat", target |-> t, field |-> f, change |-> 5, isRelative |-> r] :
        t \in {<<"a">>, <<"ghost">>}, f \in {"power", "resources"}, r \in BOOLEAN}
    \cup {[type |-> "location", target |-> <<"a">>, field |-> "location", change |-> 5,
           isRelative |-> FALSE]}

EffectCalls == IF lastCall.op = "applyEffect" THEN lastCall.n ELSE 0

ApplyEffect(effect) ==
    LET after == applyEffect(characters, edges, effect)
    IN  /\ EffectCalls < MaxEffects
        /\ characters' = after.characters
        /\ edges' = after.edges
        /\ lastCall' = [op |-> "applyEffect", effect |-> effect, n |-> EffectCalls + 1,
                        before |-> [characters |-> characters, edges |-> edges,
                                    history |-> history, globalState |-> globalState]]
        /\ UNCHANGED <<time, history, globalState, clusters, lastQuery, nWrites, written,
                       utilityCall, selection, simVars, diseaseVars, turnVars>>

NextEffect == \E effect \in EffectInputs : ApplyEffect(effect)

SpecEffect == InitRel /\ [][NextEffect]_vars

\* ------------------------------------------- the operations on the history
\* what the operations on the history leave alone
narrativeFrame ==
    <<time, globalState, clusters, lastQuery, nWrites, written, utilityCall, selection,
      diseaseVars, locations, economyVars, ecosystemVars, weatherVars, gameVars>>

\* the choices explored: a combat, an economic and a social action
ChoiceActions == {BaseActions[4], BaseActions[3], BaseActions[6]}

\* feedbackLoop.applyChoice(choice, actorId, targetId)
ApplyChoice(action, actorId, targetId) ==
    /\ Len(history) < MaxEvents
    /\ IF actorId \notin DOMAIN characters
       THEN /\ lastCall' = [op |-> "applyChoice", applied |-> FALSE]
            /\ UNCHANGED <<characters, edges, history, accumulatedChanges>>
       ELSE LET r == ChoiceApplied(characters, edges, accumulatedChanges, history, action,
                                   actorId, targetId, time)
            IN  /\ \E informed \in (IF r.event.isPublic
                                    THEN simulateRumorSpread(r.edges, actorId, 2,
                                                             RumorProbability)
                                    ELSE {{}}) :
                      characters' = RememberRumor(r.characters, r.event, Len(history) + 1,
                                                  informed, time)
                /\ edges' = r.edges
                /\ history' = r.history
                /\ accumulatedChanges' = r.acc
                /\ lastCall' = [op |-> "applyChoice", applied |-> TRUE, event |-> r.event,
                                before |-> characters, afterEffects |-> r.afterEffects]
    /\ UNCHANGED <<narrativeFrame, turnVars>>

\* world.addEvent(event) of an event with witnesses
WitnessedEvents ==
    {[type |-> "custom", timestamp |-> 0, participants |-> <<"a">>, location |-> "capital",
      description |-> "festival", effects |-> <<>>, isPublic |-> TRUE,
      witnesses |-> <<"c", "ghost">>]}

AddEvent(event) ==
    /\ Len(history) < MaxEvents
    /\ history' = addEvent(history, event)
    /\ characters' = RememberWitnessed(characters, event, Len(history) + 1, time)
    /\ lastCall' = [op |-> "addEvent"]
    /\ UNCHANGED <<edges, accumulatedChanges, narrativeFrame, turnVars>>

\* eventGenerator.forceEvent(eventType, participants)
ForcedEvents == {<<"war_declared", <<"a", "b">>>>, <<"plague", <<>>>>}

ForceEvent(eventType, participants) ==
    /\ Len(history) < MaxEvents
    /\ history' = addEvent(history, GameEvent(eventType, time, participants, "capital",
                                              eventType, TRUE))
    /\ lastCall' = [op |-> "forceEvent"]
    /\ UNCHANGED <<characters, edges, accumulatedChanges, narrativeFrame, turnVars>>

\* eventGenerator.generateEvents(), for the calls in which at most one roll
\* succeeds (those in which several do are explored in SpecTurn)
SingleRolls == {[t \in TriggerIds |-> t = x] : x \in TriggerIds \cup {"none"}}

GenerateEvents ==
    /\ Len(history) < MaxEvents
    /\ \A t \in TriggerIds : blockedFor[t] < MaxEvents
    /\ \E rolls \in SingleRolls : GenerateEventsWith(rolls)
    /\ lastCall' = [op |-> "generateEvents"]
    /\ UNCHANGED <<characters, accumulatedChanges, narrativeFrame, orchestrator, pc, turnLog>>

\* feedbackLoop.checkThresholds()
CheckThresholds ==
    /\ Len(history) < MaxEvents
    /\ history' = checkThresholds(ThresholdIds, characters, edges, history, time)
    /\ lastCall' = [op |-> "checkThresholds"]
    /\ UNCHANGED <<characters, edges, accumulatedChanges, narrativeFrame, turnVars>>

\* three characters; c watches at the capital or is away at the village, and
\* is of stern morals, of courage, or of neither
Onlookers ==
    {[location |-> "capital", personality |-> [morality |-> 70]],
     [location |-> "capital", personality |-> [morality |-> 70, courage |-> 70]],
     [location |-> "capital"],
     [location |-> "village1", personality |-> [courage |-> 70]]}

NarrativeGraphs ==
    {EmptyGraph,
     updateRelation(updateRelation(EmptyGraph, "a", "b", [trust |-> 50]),
                    "b", "c", [trust |-> 60]),
     updateRelation(EmptyGraph, "c", "a", [trust |-> -95, respect |-> 98])}

InitNarrativeWorld(o, g) ==
    /\ time = 0
    /\ history = <<>>
    /\ globalState = InitGlobalState
    /\ characters = [a |-> createCharacter([location |-> "capital", isPlayer |-> TRUE]),
                     b |-> createCharacter([location |-> "capital"]),
                     c |-> createCharacter(o)]
    /\ edges = g
    /\ clusters = NoResult
    /\ lastQuery = NoQuery
    /\ nWrites = 0
    /\ written = NoWrites
    /\ InitDisease
    /\ utilityCall = NoCall
    /\ selection = NoSelection
    /\ lastCall = NoLastCall
    /\ InitEvents
    /\ InitNoPlaces

\* the choices of the player over every onlooker and graph
InitChoice == \E o \in Onlookers : \E g \in NarrativeGraphs : InitNarrativeWorld(o, g)

NextChoice ==
    \E action \in ChoiceActions : \E actorId \in {"a", "ghost"} :
        \E targetId \in {"b", NoTarget} : ApplyChoice(action, actorId, targetId)

SpecChoice == InitChoice /\ [][NextChoice]_vars

\* every operation that records events, over three of those worlds: a stern
\* and brave onlooker who distrusts a, an indifferent one beside a chain of
\* trust, and one who is away
NarrativeWorlds ==
    {<<[location |-> "capital", personality |-> [morality |-> 70, courage |-> 70]],
       updateRelation(EmptyGraph, "c", "a", [trust |-> -95, respect |-> 98])>>,
     <<[location |-> "capital"],
       updateRelation(updateRelation(EmptyGraph, "a", "b", [trust |-> 50]),
                      "b", "c", [trust |-> 60])>>,
     <<[location |-> "village1", personality |-> [courage |-> 70]], EmptyGraph>>}

InitNarrative == \E w \in NarrativeWorlds : InitNarrativeWorld(w[1], w[2])

NextNarrative ==
    \/ NextChoice
    \/ \E event \in WitnessedEvents : AddEvent(event)
    \/ \E forced \in ForcedEvents : ForceEvent(forced[1], forced[2])
    \/ GenerateEvents
    \/ CheckThresholds

SpecNarrative == InitNarrative /\ [][NextNarrative]_vars

\* eventGenerator.detectInstability() over characters whose power is drawn
\* from PowerInputs and graphs whose relations were created in either order
PowerInputs == {10, 100, 300}

InstabilityGraphs ==
    {EmptyGraph,
     updateRelation(updateRelation(EmptyGraph, "a", "b", [trust |-> 10]),
                    "b", "a", [trust |-> 10]),
     updateRelation(updateRelation(EmptyGraph, "b", "a", [trust |-> 10]),
                    "a", "b", [trust |-> 10]),
     updateRelation(updateRelation(EmptyGraph, "a", "b", [trust |-> 10]),
                    "c", "b", [trust |-> 10])}

DetectInstability ==
    LET r == detectInstability(characters, edges)
    IN  /\ lastCall.op = "none"
        /\ edges' = r.g
        /\ lastCall' = [op |-> "detectInstability", list |-> r.list]
        /\ UNCHANGED <<worldVars, clusters, lastQuery, nWrites, written, utilityCall,
                       selection, simVars, diseaseVars, turnVars>>

InitInstability ==
    /\ time = 0
    /\ history = <<>>
    /\ globalState = InitGlobalState
    /\ \E pa \in PowerInputs, pb \in PowerInputs, pc3 \in PowerInputs :
          characters = [a |-> createCharacter([location |-> "capital", power |-> pa]),
                        b |-> createCharacter([location |-> "capital", power |-> pb]),
                        c |-> createCharacter([location |-> "capital", power |-> pc3])]
    /\ edges \in InstabilityGraphs
    /\ clusters = NoResult
    /\ lastQuery = NoQuery
    /\ nWrites = 0
    /\ written = NoWrites
    /\ InitDisease
    /\ utilityCall = NoCall
    /\ selection = NoSelection
    /\ lastCall = NoLastCall
    /\ InitEvents
    /\ InitNoPlaces

NextInstability == DetectInstability

SpecInstability == InitInstability /\ [][NextInstability]_vars

\* relations.simulateRumorSpread(source, turns, spreadProbability) over graphs
\* that writes have left: the query graphs and a chain of three relations.
\* The callbacks never, sometimes and always pass the rumour on, or do as
\* spreadInformation's 0.2 + trust * 0.3
RumorGraphs ==
    QueryGraphs \cup
    {updateRelation(updateRelation(updateRelation(EmptyGraph, "a", "b", [trust |-> 60]),
                                   "b", "c", [trust |-> 10]),
                    "c", "ghost", [trust |-> -80])}

RumorSources == {"a", "b", "ghost"}

RumorTurns == {0, 1, 2}

RumorCallbacks ==
    {[base |-> 0, slope |-> 0], [base |-> 500, slope |-> 0], [base |-> 1000, slope |-> 0],
     RumorProbability}

SimulateRumorSpread(source, turns, p) ==
    /\ \E informed \in simulateRumorSpread(edges, source, turns, p) :
          lastCall' = [op |-> "simulateRumorSpread", source |-> source, turns |-> turns,
                       p |-> p, informed |-> informed]
    /\ UNCHANGED <<simVars, worldVars, relVars, diseaseVars, utilityCall, selection, turnVars>>

InitRumor ==
    /\ InitWorld
    /\ InitDisease
    /\ utilityCall = NoCall
    /\ selection = NoSelection
    /\ lastCall = NoLastCall
    /\ InitEvents
    /\ InitNoPlaces
    /\ edges \in RumorGraphs
    /\ clusters = NoResult
    /\ lastQuery = NoQuery
    /\ nWrites = 0
    /\ written = NoWrites

NextRumor ==
    \E source \in RumorSources : \E turns \in RumorTurns : \E p \in RumorCallbacks :
        SimulateRumorSpread(source, turns, p)

SpecRumor == InitRumor /\ [][NextRumor]_vars

\* the disease system over a world of two characters in one place; a either
\* has no relation toward b yet or trusts b fully (the trust an
\* updateRelation(a, b, {trust: 1}) leaves), which sets the contact factor
\* diseaseId arguments: a default, the two further entries, and an id the
\* catalogue does not hold
DiseaseIds == {"common_cold", "relapsing", "virulent", "unknown"}

InitialGraphs == {EmptyGraph, updateRelation(EmptyGraph, "a", "b", [trust |-> 100])}

InitDiseaseWorld ==
    /\ time = 0
    /\ characters = [c \in {"a", "b"} |-> createCharacter([location |-> "capital"])]
    /\ history = <<>>
    /\ globalState = InitGlobalState
    /\ edges \in InitialGraphs
    /\ clusters = NoResult
    /\ lastQuery = NoQuery
    /\ nWrites = 0
    /\ written = NoWrites
    /\ InitDisease
    /\ utilityCall = NoCall
    /\ selection = NoSelection
    /\ lastCall = NoLastCall
    /\ InitEvents
    /\ InitNoPlaces

NextDisease ==
    \/ AdvanceTime
    \/ DiseaseUpdate
    \/ \E c \in DOMAIN characters : \E d \in DiseaseIds : Infect(c, d)
    \/ \E c \in DOMAIN characters : \E d \in DiseaseIds : StartOutbreak(d, c)
    \/ \E c \in DOMAIN characters : Treat(c)

SpecDisease == InitDiseaseWorld /\ [][NextDisease]_vars

\* UtilityAI over worlds of two characters: a's resources and power below or
\* above the catalogue's preconditions, at the palace or not, with a's trust
\* toward b absent, positive or negative
UtilityCharacters ==
    {[a |-> createCharacter([location |-> loc, resources |-> res, power |-> pow]),
      b |-> createCharacter([location |-> "capital",
                             emotion |-> [fear |-> 6000, anger |-> 4000]])] :
        loc \in {"capital", "palace"}, res \in {5, 100}, pow \in {3, 10}}

UtilityGraphs ==
    {EmptyGraph, updateRelation(EmptyGraph, "a", "b", [trust |-> 60]),
     updateRelation(EmptyGraph, "a", "b", [trust |-> -50])}

InitUtility ==
    /\ time = 0
    /\ characters \in UtilityCharacters
    /\ history = <<>>
    /\ globalState = InitGlobalState
    /\ edges \in UtilityGraphs
    /\ clusters = NoResult
    /\ lastQuery = NoQuery
    /\ nWrites = 0
    /\ written = NoWrites
    /\ InitDisease
    /\ utilityCall = NoCall
    /\ selection = NoSelection
    /\ lastCall = NoLastCall
    /\ InitEvents
    /\ InitNoPlaces

NextUtility ==
    \E cid \in DOMAIN characters : \E i \in 1..Len(ActionCatalog) :
        \E targetId \in (DOMAIN characters \ {cid}) \cup {NoTarget} :
            CalculateUtility(cid, ActionCatalog[i], targetId)

SpecUtility == InitUtility /\ [][NextUtility]_vars

\* selectAction over the worlds of SpecUtility: no candidate, the catalogue
\* of the game, the catalogue with a petition that needs the palace, and
\* lists of actions that need resources or trust
ActionLists ==
    {<<>>, BaseActions, BaseActions \o <<ProbeActions[3]>>,
     <<BaseActions[3], BaseActions[5]>>, <<BaseActions[6], BaseActions[3]>>}

NextSelect ==
    \E cid \in DOMAIN characters : \E actions \in ActionLists :
        \E targetId \in (DOMAIN characters \ {cid}) \cup {NoTarget} :
            SelectAction(cid, actions, targetId)

SpecSelect == InitUtility /\ [][NextSelect]_vars

\* The turn: a player a and a non-player b at the capital, under each of the
\* three orchestrators.  The worlds differ in who trusts whom, in the economy
\* index and in b's character, so that different triggers pass their gate.
Schemer ==
    [location |-> "capital", power |-> 21,
     personality |-> [ambition |-> 80, loyalty |-> 20, cunning |-> 80]]

TurnWorlds ==
    {[g |-> updateRelation(EmptyGraph, "a", "b", [trust |-> 30]), economyIndex |-> 100,
      npc |-> [location |-> "capital"]],
     [g |-> updateRelation(updateRelation(EmptyGraph, "a", "b", [trust |-> 50]),
                           "b", "a", [trust |-> 60]),
      economyIndex |-> 100, npc |-> [location |-> "capital"]],
     [g |-> updateRelation(EmptyGraph, "a", "b", [trust |-> 30]), economyIndex |-> 60,
      npc |-> [location |-> "capital"]],
     [g |-> EmptyGraph, economyIndex |-> 100, npc |-> Schemer]}

InitTurn ==
    /\ time = 0
    /\ history = <<>>
    /\ \E w \in TurnWorlds :
          /\ characters = [a |-> createCharacter([location |-> "capital", isPlayer |-> TRUE]),
                           b |-> createCharacter(w.npc)]
          /\ edges = w.g
          /\ globalState = [InitGlobalState EXCEPT !.economyIndex = w.economyIndex]
    /\ clusters = NoResult
    /\ lastQuery = NoQuery
    /\ nWrites = 0
    /\ written = NoWrites
    /\ InitDisease
    /\ utilityCall = NoCall
    /\ selection = NoSelection
    /\ lastCall = NoLastCall
    /\ orchestrator \in Orchestrators
    /\ pc = 1
    /\ turnLog = <<>>
    /\ recentEvents = {}
    /\ timers = {}
    /\ firedPrev = {}
    /\ firedNow = {}
    /\ blockedFor = [t \in TriggerIds |-> 0]
    /\ InitNoPlaces

NextTurn ==
    \/ TurnStart
    \/ TurnAdvanceTime
    \/ TurnEconomy
    \/ TurnEcosystem
    \/ TurnWeather
    \/ TurnDisease
    \/ TurnAutonomous
    \/ TurnNPCActions
    \/ TurnGenerateEvents
    \/ TurnCheckThresholds
    \/ TurnNextPhase
    \/ \E id \in TriggerIds : TimerFire(id)

SpecTurn == InitTurn /\ [][NextTurn]_vars

\* the economy over the sample world; the season and the plague flag are
\* those of a world on its first day, in its first winter, or with a plague
\* declared. One draw of createMarket serves all goods of all markets.
EconomyWorlds ==
    {[time |-> 0, season |-> "spring", plagueActive |-> FALSE],
     [time |-> 270, season |-> "winter", plagueActive |-> FALSE],
     [time |-> 0, season |-> "spring", plagueActive |-> TRUE]}
InitPlacesWorld(w) ==
    /\ time = w.time
    /\ characters = [c \in Chars |-> createCharacter([location |-> "capital"])]
    /\ history = <<>>
    /\ globalState = [InitGlobalState EXCEPT !.dayOfYear = w.time + 1,
                                             !.season = w.season,
                                             !.plagueActive = w.plagueActive]
    /\ InitDisease
    /\ utilityCall = NoCall
    /\ selection = NoSelection
    /\ lastCall = NoLastCall
    /\ InitEvents
    /\ edges = EmptyGraph
    /\ clusters = NoResult
    /\ lastQuery = NoQuery
    /\ nWrites = 0
    /\ written = NoWrites
InitEconomy ==
    /\ \E w \in EconomyWorlds : InitPlacesWorld(w)
    /\ \E sf \in RandomFactors, df \in RandomFactors :
          InitSimulators(SampleLocations, sf, df)

NextEconomy == EconomyUpdate

SpecEconomy == InitEconomy /\ [][NextEconomy]_vars

\* the ecosystems of the sample world, in each season
EcosystemWorlds ==
    {[time |-> 0, season |-> "spring", plagueActive |-> FALSE],
     [time |-> 90, season |-> "summer", plagueActive |-> FALSE],
     [time |-> 180, season |-> "autumn", plagueActive |-> FALSE],
     [time |-> 270, season |-> "winter", plagueActive |-> FALSE]}
InitEcosystem ==
    /\ \E w \in EcosystemWorlds : InitPlacesWorld(w)
    /\ InitSimulators(SampleLocations, 10, 10)

NextEcosystem ==
    \/ EcosystemUpdate
    \/ Hunt

SpecEcosystem == InitEcosystem /\ [][NextEcosystem]_vars

\* the weather over a world of a city, a dungeon and a building, in each
\* season; no location of the last two types is created by the programs of
\* the repository, whose Location.type admits both
Crypt ==
    [id |-> "crypt", type |-> "dungeon", resources |-> 50, population |-> 0,
     stability |-> 300, connectedTo |-> <<"capital">>]
Inn ==
    [id |-> "inn", type |-> "building", resources |-> 50, population |-> 10,
     stability |-> 800, connectedTo |-> <<"capital">>]
WeatherLocations == <<Capital, Crypt, Inn>>

InitWeather ==
    /\ \E w \in EcosystemWorlds : InitPlacesWorld(w)
    /\ InitSimulators(WeatherLocations, 10, 10)

NextWeather == WeatherUpdate

SpecWeather == InitWeather /\ [][NextWeather]_vars

\* the update functions and hunt applied to species of any population: each
\* species of the wilderness starts at its createEcosystem population, at
\* nothing, or at a remnant
PopulationInputs(species) == {0, 500, species.population}
WithPopulations(ecosystem, pops) ==
    [ecosystem EXCEPT !.species =
        [i \in 1..Len(@) |-> [@[i] EXCEPT !.population = pops[i]]]]
InitSpecies ==
    /\ \E w \in EcosystemWorlds : InitPlacesWorld(w)
    /\ locations = <<Wilderness>>
    /\ markets = initializeMarkets(<<Wilderness>>, 10, 10)
    /\ inflationRate = 0
    /\ economyLog = NoEconomyLog
    /\ economyTicks = 0
    /\ \E g \in PopulationInputs(Grass), d \in PopulationInputs(Deer),
          w \in PopulationInputs(Wolf) :
          ecosystems = [id \in {"wilderness"} |->
                           WithPopulations(createEcosystem(Wilderness), <<g, d, w>>)]
    /\ ecosystemLog = NoEcosystemLog
    /\ ecosystemTicks = 0
    /\ InitTrackers

SpecSpecies == InitSpecies /\ [][NextEcosystem]_vars

\* the calendar and the decay: a new world (day 1, spring) holding
\* characters whose emotions are the defaults, the test's 0.5 throughout, or
\* values across the range
EmotionInputs ==
    {DEFAULT_EMOTION,
     [trust |-> 5000, fear |-> 5000, anger |-> 5000, joy |-> 5000, despair |-> 5000],
     [trust |-> 10000, fear |-> 10000, anger |-> 3333, joy |-> 1, despair |-> 9999]}
InitCalendar ==
    /\ time = 0
    /\ \E e \in EmotionInputs :
          characters = [c \in Chars |->
              [createCharacter([location |-> "capital"]) EXCEPT
                  !.emotion = IF c = "a" THEN e ELSE DEFAULT_EMOTION]]
    /\ history = <<>>
    /\ globalState = InitGlobalState
    /\ InitDisease
    /\ utilityCall = NoCall
    /\ selection = NoSelection
    /\ lastCall = NoLastCall
    /\ InitEvents
    /\ InitNoPlaces
    /\ edges = EmptyGraph
    /\ clusters = NoResult
    /\ lastQuery = NoQuery
    /\ nWrites = 0
    /\ written = NoWrites

NextCalendar == AdvanceTimeDaily

SpecCalendar == InitCalendar /\ [][NextCalendar]_vars

\* ------------------------------------------------------- claims on SpecRel
StoredRelations == {edges.rel[p] : p \in DOMAIN edges.rel}

\* C1: after any sequence of relation writes (updateRelation, modifyRelation,
\* relation-typed applyEffect, relative or absolute) with inputs of any
\* magnitude, every stored relation has trust in [-1,1], fear in [0,1] and
\* respect in [-1,1].
C1_RelationsClamped ==
    \A r \in StoredRelations :
        /\ r.trust \in -100..100
        /\ r.fear \in 0..100
        /\ r.respect \in -100..100

\* the spec's example: trust pushed up by 2 and then down by 5 rests at -1;
\* among the inputs only the delta -5 can bring a trust to -1
C1_Witness ==
    /\ nWrites = 2
    /\ \E p \in DOMAIN edges.rel : edges.rel[p].trust = -100 /\ edges.rel[p].fear = 0

\* a and b trust each other above the threshold, in both directions
MutualTrust(g, threshold, a, b) ==
    /\ HasEdge(g, a, b) /\ RelationOf(g, a, b).trust > threshold
    /\ HasEdge(g, b, a) /\ RelationOf(g, b, a).trust > threshold

\* the characters linked to a by a chain of mutually trusting pairs
RECURSIVE MutualComponent(_, _, _)
MutualComponent(g, threshold, S) ==
    LET S1 == S \cup {b \in Ids : \E a \in S : MutualTrust(g, threshold, a, b)}
    IN  IF S1 = S THEN S ELSE MutualComponent(g, threshold, S1)

\* C2: getClusters(t) never groups two characters on the strength of trust
\* that exceeds t in one direction only: every group it returns lies inside
\* one component of the mutual-trust relation at t.
C2_OnlyMutualTrustClusters ==
    clusters.fresh =>
        \A i \in 1..Len(clusters.groups) :
            \A a \in SeqToSet(clusters.groups[i]) :
                SeqToSet(clusters.groups[i])
                    \subseteq MutualComponent(edges, clusters.threshold, {a})

\* --------------------------------------------------- claims on SpecDisease
LoggedChanges ==
    UNION {{lastTransitions[c][i] : i \in 1..Len(lastTransitions[c])} :
              c \in DOMAIN lastTransitions}

\* C3: an individual's health state only ever moves susceptible -> exposed ->
\* infected -> recovered, or infected -> dead, or recovered -> susceptible once
\* immunityDuration ticks have passed since the recovery; no other change of
\* state is ever made by update, infect, startOutbreak or treat.
C3_DiseaseTransitions ==
    \A ch \in LoggedChanges :
        \/ ch.from = "susceptible" /\ ch.to = "exposed"
        \/ ch.from = "exposed" /\ ch.to = "infected"
        \/ ch.from = "infected" /\ ch.to \in {"recovered", "dead"}
        \/ /\ ch.from = "recovered" /\ ch.to = "susceptible"
           /\ ch.immunity >= 0 /\ ch.waited >= ch.immunity

\* an immunity expired, and the same update exposed the individual again
C3_Witness ==
    \E c \in DOMAIN lastTransitions :
        /\ Len(lastTransitions[c]) = 2
        /\ lastTransitions[c][1].from = "recovered"
        /\ lastTransitions[c][1].to = "susceptible"
        /\ lastTransitions[c][2].to = "exposed"

CoLocated(c, n) == characters[c].location = characters[n].location

CarriesCertainDisease(c) ==
    /\ healthStatuses[c].state = "infected"
    /\ healthStatuses[c].diseaseId \in DOMAIN diseases
    /\ diseases[healthStatuses[c].diseaseId].transmissionRate = 1000

RecoveredForGood(c) ==
    /\ healthStatuses[c].state = "recovered"
    /\ healthStatuses[c].diseaseId \in DOMAIN diseases
    /\ diseases[healthStatuses[c].diseaseId].immunityDuration = 0

\* C10: an individual recovered from a disease with immunityDuration = 0
\* stays recovered under every later update, infect, startOutbreak and treat:
\* it never returns to susceptible and is never exposed again.
C10_PermanentImmunity ==
    [][\A c \in DOMAIN healthStatuses :
          RecoveredForGood(c) =>
              /\ healthStatuses'[c].state = "recovered"
              /\ healthStatuses'[c].diseaseId = healthStatuses[c].diseaseId]_vars

\* recovered for good, two ticks ago or more
C10_Witness ==
    \E c \in DOMAIN healthStatuses :
        RecoveredForGood(c) /\ time >= healthStatuses[c].recoveredTurn + 2

\* --------------------------------------------------- claims on SpecUtility
\* the conditions of the latest call that checkCondition rejects
FailedConditions ==
    LET act == utilityCall.action
    IN  {i \in 1..Len(act.conditions) :
            ~checkCondition(edges, utilityCall.character,
                            characters[utilityCall.character],
                            act.conditions[i], utilityCall.targetId).ok}

\* C7: calculateUtility returns utility -Infinity and an all-zero breakdown
\* whenever at least one of the action's conditions fails, whatever the
\* action's effects and weights.
C7_FailedConditionInvalidates ==
    (utilityCall.called /\ FailedConditions # {}) =>
        /\ utilityCall.utility = NegInfinity
        /\ \A k \in DOMAIN utilityCall.breakdown : utilityCall.breakdown[k] = 0

\* the spec's scenario: resources 5 and the trade action (resources >= 10)
C7_Witness ==
    /\ utilityCall.called
    /\ utilityCall.action.id = "trade"
    /\ characters[utilityCall.character].resources = 5
    /\ utilityCall.utility = NegInfinity

RecognizedConditionTypes == {"stat", "relation", "resource", "location"}

\* C8: an action carrying a condition whose type is not stat, relation,
\* resource or location is invalid: its utility is -Infinity.
C8_UnrecognizedConditionInvalidates ==
    (/\ utilityCall.called
     /\ \E i \in 1..Len(utilityCall.action.conditions) :
           utilityCall.action.conditions[i].type \notin RecognizedConditionTypes)
    => utilityCall.utility = NegInfinity

\* ------------------------------------------------------ claims on SpecTurn
\* C4: a trigger that fired in one generateEvents call does not fire in the
\* next generateEvents call, under every orchestrator.
C4_NoConsecutiveFiring ==
    firedPrev \cap firedNow = {}

\* C5: the marker of a fired trigger is gone after the turn that follows the
\* firing: no trigger is skipped by its marker in two generateEvents calls
\* in a row, under every orchestrator.
C5_BlockedOneTurnOnly ==
    \A t \in TriggerIds : blockedFor[t] <= 1

\* position of a step in the current turn's log, 0 when it has not run
StepPos(step) ==
    IF Contains(turnLog, step)
    THEN CHOOSE i \in 1..Len(turnLog) : turnLog[i] = step
    ELSE 0

\* C6: when generateEvents runs in a turn, advanceTime has run first, then
\* the Economy, Ecosystem, Weather and Disease updates in that order, and
\* checkThresholds runs only after generateEvents.
C6_SimulatorsBeforeEvents ==
    StepPos("generateEvents") > 0 =>
        /\ StepPos("advanceTime") > 0
        /\ StepPos("advanceTime") < StepPos("economy")
        /\ StepPos("economy") < StepPos("ecosystem")
        /\ StepPos("ecosystem") < StepPos("weather")
        /\ StepPos("weather") < StepPos("disease")
        /\ StepPos("disease") < StepPos("generateEvents")
        /\ (StepPos("checkThresholds") > 0 =>
               StepPos("generateEvents") < StepPos("checkThresholds"))

\* --------------------------------------------------- claims on SpecEconomy
\* C11: after any sequence of Economy.update ticks, every price of every
\* market lies between half and three times the base price of its goods.
C11_PricesWithinBand ==
    \A id \in DOMAIN markets : \A g \in GoodsTypes :
        /\ markets[id].prices[g] >= BASE_PRICES[g] * 500
        /\ markets[id].prices[g] <= BASE_PRICES[g] * 3000

\* an update has run and left a price at the upper end of its band
C11_Witness ==
    /\ economyLog.ticked
    /\ \E id \in DOMAIN markets : \E g \in GoodsTypes :
          markets[id].prices[g] = BASE_PRICES[g] * 3000

\* C12: an Economy.update leaves, before any trade-route transfer, each
\* market's supply of each goods at its previous supply plus the production
\* minus the consumption.
C12_SupplyRegenerates ==
    economyLog.ticked =>
        \A id \in DOMAIN economyLog.supplied : \A g \in GoodsTypes :
            economyLog.supplied[id].supply[g] =
                economyLog.steps[id][g].before + economyLog.steps[id][g].production
                    - economyLog.steps[id][g].consumption

\* the routes of the latest update and what it moved: with two markets, the
\* supply a market gained on the trade routes came from the other one
RouteSet == SeqToSet(Routes(locations, markets, 1))
Gain(id, goods) == markets[id].supply[goods] - economyLog.supplied[id].supply[goods]
MovedFive(route) ==
    /\ Gain(route.market, route.goods) = 5000
    /\ Gain(route.connected, route.goods) = -5000
MovedNothing(route) ==
    /\ Gain(route.market, route.goods) = 0
    /\ Gain(route.connected, route.goods) = 0
\* the listing market's price exceeds 1.3 times the connected market's
PriceExceeds(route) ==
    markets[route.market].prices[route.goods] * 10
        > markets[route.connected].prices[route.goods] * 13
\* the connected market held more than 5 units when the routes were run
HasStock(route) == economyLog.supplied[route.connected].supply[route.goods] > 5000

\* C13 as stated: for connected markets and each goods, whenever the higher
\* price exceeds 1.3 times the lower one, the update moves exactly 5 units of
\* supply from the lower-priced market to the higher-priced one.
C13_TradeMovesFive ==
    economyLog.ticked =>
        \A r \in RouteSet : PriceExceeds(r) => MovedFive(r)

\* C13 amended: the 5 units move only when the lower-priced market holds
\* more than 5 units after updateSupplyDemand; otherwise nothing moves, and
\* nothing moves either when neither price exceeds 1.3 times the other.
C13_TradeMovesFiveWhenSupplied ==
    economyLog.ticked =>
        \A r \in RouteSet :
            /\ PriceExceeds(r) /\ HasStock(r) => MovedFive(r)
            /\ PriceExceeds(r) /\ ~HasStock(r) => MovedNothing(r)
            /\ (\A r2 \in RouteSet : r2.goods = r.goods => ~PriceExceeds(r2))
                  => MovedNothing(r)

\* an update has moved 5 units along a route
C13_Witness ==
    /\ economyLog.ticked
    /\ \E r \in RouteSet : PriceExceeds(r) /\ HasStock(r) /\ MovedFive(r)

\* ------------------------------------------------- claims on SpecEcosystem
\* C14: after any sequence of Ecosystem.update and hunt calls every species
\* population is at least 0.
C14_PopulationsNonNegative ==
    \A id \in DOMAIN ecosystems : \A i \in 1..Len(ecosystems[id].species) :
        ecosystems[id].species[i].population >= 0

\* a hunt has taken animals from a population that updates had changed
C14_Witness ==
    /\ ecosystemLog.op = "hunt"
    /\ ecosystemTicks > 0
    /\ \E id \in DOMAIN ecosystems : \E i \in 1..Len(ecosystems[id].species) :
          ecosystems[id].species[i].population < ecosystemLog.before[id][i]

\* --------------------------------------------------- claims on SpecSpecies
\* C15: a species whose population is 0 still has a population of 0 after
\* every later Ecosystem.update (and after every hunt in between).
C15_ExtinctStaysExtinct ==
    ecosystemLog.op # "none" =>
        \A id \in DOMAIN ecosystems : \A i \in 1..Len(ecosystems[id].species) :
            ecosystemLog.before[id][i] = 0 => ecosystems[id].species[i].population = 0

\* a second update has run over a plant of population 0 next to animals
\* that are still there
C15_Witness ==
    /\ ecosystemLog.op = "update"
    /\ ecosystemTicks >= 2
    /\ \E id \in DOMAIN ecosystems : \E i, k \in 1..Len(ecosystems[id].species) :
          /\ ecosystems[id].species[i].type = "plant"
          /\ ecosystemLog.before[id][i] = 0
          /\ ecosystems[id].species[i].population = 0
          /\ ecosystems[id].species[k].population > 0

\* -------------------------------------------------- claims on SpecCalendar
\* C16: one advanceTime() leaves each of anger, fear, joy and despair of
\* every character at 0.95 times its value before the call (to the
\* precision of one ten-thousandth) and leaves emotion.trust as it was.
C16_EmotionDecay ==
    [][time' = time + 1 =>
        \A c \in DOMAIN characters :
            /\ \A k \in {"anger", "fear", "joy", "despair"} :
                  /\ 100 * characters'[c].emotion[k] <= 95 * characters[c].emotion[k]
                  /\ 95 * characters[c].emotion[k] < 100 * characters'[c].emotion[k] + 100
            /\ characters'[c].emotion.trust = characters[c].emotion.trust]_vars

\* the test's character after one call: 0.5 has become 0.475, trust is 0.5
C16_Witness ==
    /\ time = 1
    /\ characters["a"].emotion.anger = 4750
    /\ characters["a"].emotion.fear = 4750
    /\ characters["a"].emotion.joy = 4750
    /\ characters["a"].emotion.despair = 4750
    /\ characters["a"].emotion.trust = 5000

\* the season whose fixed day range holds the day
SeasonByRange(day) ==
    CASE day \in 1..90 -> "spring"
      [] day \in 91..180 -> "summer"
      [] day \in 181..270 -> "autumn"
      [] day \in 271..365 -> "winter"
      [] OTHER -> "no season"

\* C17: after every advanceTime() the day is in 1..365, having wrapped from
\* 365 to 1, and the season is the one of the day's range; from day 1 the
\* season is spring until the day reaches 91, summer at day 91 (after 90
\* calls), and summer after 91 calls.
C17_Calendar ==
    /\ [](globalState.dayOfYear \in 1..365
            /\ globalState.season = SeasonByRange(globalState.dayOfYear))
    /\ [][time' = time + 1 =>
            globalState'.dayOfYear =
                IF globalState.dayOfYear = 365 THEN 1 ELSE globalState.dayOfYear + 1]_vars
    /\ [](time < 90 => globalState.dayOfYear < 91 /\ globalState.season = "spring")
    /\ [](time = 90 => globalState.dayOfYear = 91 /\ globalState.season = "summer")
    /\ [](time = 91 => globalState.season = "summer")

\* the 91st call has run and the season is summer
C17_Witness ==
    /\ time = 91
    /\ globalState.dayOfYear = 92
    /\ globalState.season = "summer"

\* ---------------------------------------------------- claims on SpecSelect
\* the utility of the i-th candidate of the latest selectAction call, and
\* whether one of its conditions fails
CandidateUtility(i) ==
    calculateUtility(edges, selection.character, characters[selection.character],
                     selection.actions[i], selection.targetId).utility
CandidateFails(i) ==
    \E k \in 1..Len(selection.actions[i].conditions) :
        ~checkCondition(edges, selection.character, characters[selection.character],
                        selection.actions[i].conditions[k], selection.targetId).ok
Candidates == 1..Len(selection.actions)
ValidCandidates == {i \in Candidates : CandidateUtility(i) > NegInfinity}

\* C18: selectAction returns null exactly when no candidate is valid (no
\* candidate at all, or every utility -Infinity); otherwise it returns a
\* valid candidate that at most two valid candidates exceed in utility, and
\* never one with a failing condition.
C18_SelectAction ==
    selection.called =>
        /\ selection.chosen = NullChoice <=> ValidCandidates = {}
        /\ selection.chosen # NullChoice =>
              /\ selection.chosen \in ValidCandidates
              /\ Cardinality({j \in ValidCandidates :
                                CandidateUtility(j) > CandidateUtility(selection.chosen)}) <= 2
              /\ ~CandidateFails(selection.chosen)

\* an action was chosen among more than three valid candidates, with an
\* invalid candidate in the list
C18_Witness ==
    /\ selection.called
    /\ selection.chosen # NullChoice
    /\ Cardinality(ValidCandidates) > 3
    /\ \E i \in Candidates : CandidateFails(i)

\* --------------------------------------------- further claims on SpecRel
\* what getRelation(from, to) returns
ReadRelation(f, t) == RelationOf(EnsureRelation(edges, f, t), f, t)
ZeroRelation ==
    [trust |-> 0, fear |-> 0, respect |-> 0, debt |-> 0,
     secretShared |-> FALSE, history |-> <<>>]

\* C19: a write to A->B (updateRelation, modifyRelation, addHistory) changes
\* no relation but A->B, and a relation that was never written reads as
\* trust 0, fear 0, respect 0, debt 0, secretShared false and no history,
\* whatever was written to other relations.
C19_IndependentRelations ==
    /\ [](\A f \in Chars : \A t \in Chars \ {f} :
            <<f, t>> \notin written.pairs => ReadRelation(f, t) = ZeroRelation)
    /\ [][nWrites' = nWrites + 1 =>
            \A p \in DOMAIN edges.rel :
                p # written'.latest => edges'.rel[p] = edges.rel[p]]_vars

\* ----------------------------------------------------- claims on SpecQuery
Queries == {"getRelation", "getClusters", "getMostInfluential", "getStats"}
\* what getStats, getCentrality and getMostInfluential report on a graph
Reports(g) ==
    [stats |-> getStats(g),
     centrality |-> [id \in Chars |-> getCentrality(g, id)],
     influential |-> getMostInfluential(g, 5)]

\* C20 as stated: getRelation, getClusters, getMostInfluential and getStats
\* are read-only: after any of them the graph is what it was, so getStats
\* (edge count, mean trust, mean fear), getCentrality and
\* getMostInfluential report what they would have reported before it.
C20_QueriesReadOnly ==
    lastQuery.op \in Queries =>
        /\ edges = lastQuery.before
        /\ Reports(edges) = Reports(lastQuery.before)

\* C20 amended: getMostInfluential and getStats leave the graph as it was.
\* getRelation and getClusters leave every existing relation as it was but
\* may create missing relations with trust 0, fear 0, respect 0, debt 0 and
\* secretShared false (getRelation the one asked for); the sums of trust
\* and of fear stay, the edge count and the centralities can only grow.
C20_QueriesOnlyCreateDefaults ==
    lastQuery.op \in Queries =>
        /\ lastQuery.op \in {"getMostInfluential", "getStats"} => edges = lastQuery.before
        /\ \A p \in DOMAIN lastQuery.before.rel :
              p \in DOMAIN edges.rel /\ edges.rel[p] = lastQuery.before.rel[p]
        /\ \A p \in DOMAIN edges.rel \ DOMAIN lastQuery.before.rel :
              /\ edges.rel[p].trust = 0
              /\ edges.rel[p].fear = 0
              /\ edges.rel[p].respect = 0
              /\ edges.rel[p].debt = 0
              /\ edges.rel[p].secretShared = FALSE
        /\ getStats(edges).totalTrust = getStats(lastQuery.before).totalTrust
        /\ getStats(edges).totalFear = getStats(lastQuery.before).totalFear
        /\ getStats(edges).edgeCount >= getStats(lastQuery.before).edgeCount
        /\ \A id \in Chars : getCentrality(edges, id) >= getCentrality(lastQuery.before, id)

\* a getClusters call has created a relation, and the edge count reported
\* by getStats has grown with it
C20_Witness ==
    /\ lastQuery.op = "getClusters"
    /\ DOMAIN edges.rel # DOMAIN lastQuery.before.rel
    /\ getStats(edges).edgeCount > getStats(lastQuery.before).edgeCount

\* ---------------------------------------------------- claims on SpecEffect
\* the ids an effect's target names: the target itself, or for a relation
\* effect the two ids of "from:to"
TargetIds(effect) ==
    IF effect.type = "relation" THEN {effect.target[1], effect.target[2]}
    ELSE {effect.target[1]}

\* C21: an applyEffect call whose effect (emotion, relation, resource or
\* stat) names a character that does not exist changes nothing: the
\* characters, the relation graph (no edge is created), the history and the
\* global state are what they were before the call.
C21_AbsentTargetDropped ==
    (/\ lastCall.op = "applyEffect"
     /\ lastCall.effect.type \in {"emotion", "relation", "resource", "stat"}
     /\ TargetIds(lastCall.effect) \ DOMAIN lastCall.before.characters # {}) =>
        /\ characters = lastCall.before.characters
        /\ edges = lastCall.before.edges
        /\ history = lastCall.before.history
        /\ globalState = lastCall.before.globalState

\* ------------------------------------------------- claims on SpecNarrative
\* C22: the event history is append-only: under addEvent, applyChoice,
\* generateEvents, forceEvent and checkThresholds the history before a call
\* is a prefix of the history after it; no recorded event is altered or
\* removed.
C22_HistoryAppendOnly ==
    [][/\ Len(history') >= Len(history)
       /\ \A i \in 1..Len(history) : history'[i] = history[i]]_vars

\* an applyChoice call has appended its event behind an earlier one
C22_Witness ==
    /\ Len(history) >= 2
    /\ lastCall.op = "applyChoice"
    /\ lastCall.applied
    /\ history[Len(history)] = lastCall.event

\* the onlookers of the event applyChoice has just recorded: its witnesses
\* who are characters and not participants
Bystanders ==
    {w \in DOMAIN characters :
        /\ \E i \in 1..Len(lastCall.event.witnesses) : lastCall.event.witnesses[i] = w
        /\ \A j \in 1..Len(lastCall.event.participants) : lastCall.event.participants[j] # w}

Involved == {lastCall.event.participants[j] : j \in 1..Len(lastCall.event.participants)}

\* the table of the claim, in hundredths
TableTrust(w) ==
    IF lastCall.event.type = "combat" /\ characters[w].personality.morality > 60 THEN -10
    ELSE IF lastCall.event.type = "trade" THEN 2
    ELSE 0

TableRespect(w) ==
    IF lastCall.event.type = "combat" /\ characters[w].personality.courage > 60 THEN 5 ELSE 0

Bounded(x, lo, hi) == IF x < lo THEN lo ELSE IF x > hi THEN hi ELSE x

\* the relation w -> q as the effects of the choice left it (the default
\* relation when there was none) moved by the table and kept in range
Judged(w, q) ==
    LET g0  == lastCall.afterEffects
        old == IF <<w, q>> \in DOMAIN g0.rel THEN g0.rel[<<w, q>>] ELSE DEFAULT_RELATION
    IN  [trust   |-> Bounded(old.trust + TableTrust(w), -100, 100),
         respect |-> Bounded(old.respect + TableRespect(w), -100, 100),
         fear    |-> old.fear, debt |-> old.debt, secretShared |-> old.secretShared]

Opinion(r) ==
    [trust |-> r.trust, respect |-> r.respect, fear |-> r.fear, debt |-> r.debt,
     secretShared |-> r.secretShared]

\* C26: when applyChoice propagates its event, only witnesses who are not
\* participants have relations changed, and only their relations toward the
\* event's participants, by the table of the event type (combat: trust -0.1
\* if the witness's morality > 0.6, respect +0.05 if its courage > 0.6;
\* trade: trust +0.02); every other relation, those held by participants
\* included, is as the choice's effects left it.
C26_WitnessesJudgeParticipants ==
    (lastCall.op = "applyChoice" /\ lastCall.applied) =>
        /\ DOMAIN lastCall.afterEffects.rel \subseteq DOMAIN edges.rel
        /\ \A p \in DOMAIN edges.rel :
              IF p[1] \in Bystanders /\ p[2] \in Involved
                 /\ (TableTrust(p[1]) # 0 \/ TableRespect(p[1]) # 0)
              THEN Opinion(edges.rel[p]) = Judged(p[1], p[2])
              ELSE /\ p \in DOMAIN lastCall.afterEffects.rel
                   /\ edges.rel[p] = lastCall.afterEffects.rel[p]

\* an attack of a on b watched by c, of stern morals and of courage, whose
\* trust toward a was already near the floor: it ends at -1, respect at 1,
\* while b's relation toward a is as the attack's effects left it
C26_Witness ==
    /\ lastCall.op = "applyChoice" /\ lastCall.applied
    /\ lastCall.event.type = "combat"
    /\ "c" \in Bystanders /\ Involved = {"a", "b"}
    /\ TableTrust("c") = -10 /\ TableRespect("c") = 5
    /\ <<"c", "a">> \in DOMAIN lastCall.afterEffects.rel
    /\ edges.rel[<<"c", "a">>].trust = -100 /\ edges.rel[<<"c", "a">>].respect = 100
    /\ <<"c", "b">> \notin DOMAIN lastCall.afterEffects.rel
    /\ edges.rel[<<"c", "b">>].trust = -10

\* the species of a place that are below a tenth or above nine tenths of
\* their carrying capacity (populations are in hundredths)
Troubled(id) ==
    {i \in 1..Len(ecosystems[id].species) :
        \/ ecosystems[id].species[i].population < 10 * ecosystems[id].species[i].carryingCapacity
        \/ ecosystems[id].species[i].population > 90 * ecosystems[id].species[i].carryingCapacity}

\* C28: after Ecosystem.update, the stability of every Location that has an
\* ecosystem is 1 - 0.5 x (fraction of its species within 10% of extinction
\* or above 90% of carrying capacity) when read from the WorldState.
C28_LocationStabilityRecomputed ==
    ecosystemLog.op = "update" =>
        \A id \in DOMAIN ecosystems :
            Len(ecosystems[id].species) > 0 =>
                getLocation(locations, id).stability * Len(ecosystems[id].species)
                    = 1000 * Len(ecosystems[id].species) - 500 * Cardinality(Troubled(id))

\* --------------------------------------------------- claims on SpecWeather
\* C29: each global weather regime lasts at least 2 and at most 6
\* Weather.update ticks before the weather type is resampled from the
\* transition matrix: an update that resamples ends a regime of 2 to 6 ticks,
\* and no regime has gone 6 ticks without one.
C29_RegimeLasts2To6 ==
    /\ weatherLog.resampled => (weatherLog.lasted >= 2 /\ weatherLog.lasted <= 6)
    /\ weatherLog.age < 6

\* the regime drawn at the first resampling has lasted five ticks, the
\* longest a draw gives, when the update resamples again
C29_Witness ==
    /\ weatherLog.resampled
    /\ weatherLog.lasted = 5
    /\ weatherLog.ticks = 8

\* the locations with a weather entry that are indoors: dungeons and buildings
IndoorPlaces ==
    {id \in DOMAIN weatherByLocation :
        \E i \in 1..Len(locations) :
            locations[i].id = id /\ locations[i].type \in {"dungeon", "building"}}

DungeonPlaces ==
    {id \in DOMAIN weatherByLocation :
        \E i \in 1..Len(locations) : locations[i].id = id /\ locations[i].type = "dungeon"}

\* C30 as stated: after every Weather.update, every indoor location has
\* weather type clear and temperature 15, whatever the global weather is.
C30_IndoorsClear ==
    weatherLog.ticks > 0 =>
        \A id \in IndoorPlaces :
            weatherByLocation[id].type = "clear" /\ weatherByLocation[id].temperature = 150

\* C30, amended: after every Weather.update, every location of type dungeon
\* has weather type clear and temperature 15, whatever the global weather is;
\* locations of every other type, buildings included, carry the global type.
C30_DungeonsClear ==
    weatherLog.ticks > 0 =>
        /\ \A id \in DungeonPlaces :
              weatherByLocation[id].type = "clear" /\ weatherByLocation[id].temperature = 150
        /\ \A id \in DOMAIN weatherByLocation \ DungeonPlaces :
              weatherByLocation[id].type = globalWeather.type

\* a storm outside: the crypt is clear at 15 degrees, the inn in the storm
C30_Witness ==
    /\ weatherLog.ticks > 0
    /\ globalWeather.type = "storm"
    /\ weatherByLocation["crypt"].type = "clear"
    /\ weatherByLocation["crypt"].temperature = 150
    /\ weatherByLocation["inn"].type = "storm"

\* ----------------------------------------------------- claims on SpecRumor
\* the ids a path of at most n relations leads to from the ids in S
RECURSIVE WithinHops(_, _)
WithinHops(S, n) ==
    IF n <= 0 THEN S
    ELSE WithinHops(S \cup {t \in Ids : \E f \in S : <<f, t>> \in DOMAIN edges.rel}, n - 1)

\* C27: simulateRumorSpread(source, turns, p) returns a set that always
\* contains source, and every other member is reachable from source along a
\* path of at most turns outgoing relations; with turns = 0 the result is
\* exactly {source}.
C27_RumorWithinTurns ==
    lastCall.op = "simulateRumorSpread" =>
        /\ lastCall.source \in lastCall.informed
        /\ lastCall.informed \subseteq WithinHops({lastCall.source}, lastCall.turns)
        /\ lastCall.turns = 0 => lastCall.informed = {lastCall.source}

\* two turns from a along the chain a -> b -> c -> ghost inform b and c and
\* stop short of ghost, three relations away
C27_Witness ==
    /\ lastCall.op = "simulateRumorSpread"
    /\ lastCall.source = "a" /\ lastCall.turns = 2
    /\ lastCall.informed = {"a", "b", "c"}
    /\ <<"c", "ghost">> \in DOMAIN edges.rel

\* ----------------------------------------------- claims on SpecInstability
\* the highest power among the characters is more than twice the
\* second-highest: one character has more than twice the power of every other
TopPowerDominates ==
    \E c \in DOMAIN characters :
        \A d \in DOMAIN characters \ {c} : characters[c].power > 2 * characters[d].power

\* C23: detectInstability reports power_imbalance if and only if the highest
\* power among the characters is more than twice the second-highest power.
C23_PowerImbalance ==
    lastCall.op = "detectInstability" =>
        (Contains(lastCall.list, "power_imbalance") <=> TopPowerDominates)


\* the individuals carrying a disease, and the living ones
Carriers == {c \in DOMAIN healthStatuses : healthStatuses[c].state \in {"exposed", "infected"}}

Living == {c \in DOMAIN healthStatuses : healthStatuses[c].state # "dead"}

\* no single-individual operation (infect, startOutbreak, treat) has changed a
\* health status since the latest Disease.update
UpdatedLast ==
    \A c \in DOMAIN lastTransitions :
        \A i \in 1..Len(lastTransitions[c]) :
            lastTransitions[c][i].by \in {"updateIndividualHealth", "spreadDisease"}

\* C24: after every Disease.update, globalState.plagueActive is true whenever
\* the exposed plus infected individuals are more than a tenth of the
\* population (the living; a fortiori of everyone registered).
C24_PlagueFlagAfterUpdate ==
    (UpdatedLast /\ Cardinality(Carriers) * 10 > Cardinality(Living))
        => globalState.plagueActive

\* an update has just turned an exposed individual infected, carriers are
\* more than a tenth of the living, and the flag is set
C24_Witness ==
    /\ \E c \in DOMAIN lastTransitions :
           /\ Len(lastTransitions[c]) > 0
           /\ lastTransitions[c][1].by = "updateIndividualHealth"
           /\ lastTransitions[c][1].to = "infected"
    /\ Cardinality(Carriers) * 10 > Cardinality(Living)
    /\ globalState.plagueActive


\* both directed relations between a and b exist in the graph getClusters was
\* called on, and carry trust above t
BothTrustAbove(a, b, t) ==
    LET g == lastQuery.before
    IN  /\ <<a, b>> \in DOMAIN g.rel /\ g.rel[<<a, b>>].trust > t
        /\ <<b, a>> \in DOMAIN g.rel /\ g.rel[<<b, a>>].trust > t

GroupedTogether(a, b) ==
    \E i \in 1..Len(clusters.groups) :
        {a, b} \subseteq {clusters.groups[i][k] : k \in 1..Len(clusters.groups[i])}

levelFrame ==
    <<worldVars, relVars, diseaseVars, turnVars, utilityCall, selection, locations,
      economyVars, ecosystemVars, weatherVars, feedbackVars, roomVars, saved, combat>>

\* exp of an enemy of Combat.ts (the bandit), and the 10 used for an enemy without one
EnemyExp == {30, 10}

\* rewards.exp of two of the quests of Combat.ts
QuestExp == {50, 100}

\* LevelSystem.initializePlayerStats(player), as the games call it at start
InitializePlayerStats ==
    /\ player' = initializePlayerStats(player)
    /\ lastCall' = [op |-> "initializePlayerStats", before |-> player]
    /\ UNCHANGED levelFrame

\* handleLevelUp(exp): LevelSystem.addExperience(player, exp)
AddExperience(amount) ==
    /\ OrZero(player.experience) + amount <= MaxExperience
    /\ LET r == addExperience(player, amount)
       IN  /\ player' = r.character
           /\ lastCall' = [op |-> "addExperience", amount |-> amount, before |-> player,
                           reward |-> r.reward]
    /\ UNCHANGED levelFrame

\* completeQuest(questId): the quest's exp is added to player.experience
CompleteQuest(exp) ==
    /\ OrZero(player.experience) + exp <= MaxExperience
    /\ player' = [player EXCEPT !.experience = OrZero(player.experience) + exp]
    /\ lastCall' = [op |-> "completeQuest", exp |-> exp, before |-> player]
    /\ UNCHANGED levelFrame

\* a new game: the world as constructed, the player not yet initialized
InitLevel == InitRel

NextLevel ==
    \/ InitializePlayerStats
    \/ \E amount \in EnemyExp : AddExperience(amount)
    \/ \E exp \in QuestExp : CompleteQuest(exp)

SpecLevel == InitLevel /\ [][NextLevel]_vars

\* ----------------------------------------------------- claims on SpecLevel
\* the character went through initializePlayerStats: no level field is undefined
Initialized(c) ==
    c.level # Undefined /\ c.experience # Undefined /\ c.expToNextLevel # Undefined

\* C31: for a character initialized by initializePlayerStats, experience 0
\* included, addExperience(character, amount) adds amount to experience and
\* levels up as soon as experience reaches expToNextLevel: below it the
\* experience is the sum, at or above it the level has risen.
C31_AddExperienceFromZero ==
    (lastCall.op = "addExperience" /\ Initialized(lastCall.before)) =>
        LET total == lastCall.before.experience + lastCall.amount
        IN  IF total >= lastCall.before.expToNextLevel
            THEN player.level > lastCall.before.level
            ELSE player.experience = total /\ player.level = lastCall.before.level

\* ------------------------------------------- further claims on SpecRel
\* the members of the i-th group of the latest getClusters result
GroupMembers(i) == {clusters.groups[i][k] : k \in 1..Len(clusters.groups[i])}

\* the nodes the latest getClusters result puts in some group
Grouped == UNION {GroupMembers(i) : i \in 1..Len(clusters.groups)}

\* C32: getClusters(t) never returns a singleton group: every returned group
\* has at least two different members, for every graph and every threshold.
C32_NoSingletonGroup ==
    \A i \in 1..Len(clusters.groups) :
        Len(clusters.groups[i]) >= 2 /\ Cardinality(GroupMembers(i)) >= 2

\* a getClusters call returned a group and left a node of the graph out of
\* every group: that node's cluster of one was dropped
C32_Witness ==
    /\ clusters.fresh
    /\ Len(clusters.groups) >= 1
    /\ \E n \in SeqToSet(AllNodes(edges)) : n \notin Grouped

\* the groups of a getClusters result as a set of member sets
GroupSets(groups) == {SeqToSet(groups[i]) : i \in 1..Len(groups)}

\* a sequence back to front
Backwards(s) == [i \in 1..Len(s) |-> s[Len(s) + 1 - i]]

\* the graph holding the same relations created in the opposite order: both
\* Maps iterate back to front
CreatedBackwards(g) ==
    [g EXCEPT !.from = Backwards(g.from),
              !.to = [n \in DOMAIN g.to |-> Backwards(g.to[n])]]

\* C35: the set of groups returned by getClusters(t) depends only on the
\* current trust values, not on the order in which the relations were
\* created: the graph with the same relations created in the opposite order
\* yields the same set of groups.
C35_ClustersIgnoreCreationOrder ==
    lastQuery.op = "getClusters" =>
        GroupSets(clusters.groups)
            = GroupSets(getClusters(CreatedBackwards(lastQuery.before), clusters.threshold).groups)

\* ------------------------------------------ further claims on SpecNarrative
\* the events of a history that a threshold emitted (its id is their description)
ThresholdEvents(hist, id) == {i \in 1..Len(hist) : hist[i].description = id}

\* a checkThresholds call that directly follows another one
RepeatedCheck == lastCall.op = "checkThresholds" /\ lastCall'.op = "checkThresholds"

\* C33: checkThresholds emits an ambient event when a threshold is crossed,
\* not on every call: when a threshold's condition held at a checkThresholds
\* call and still holds at the next one, with nothing changed in between,
\* the second call adds no further event for that threshold.
C33_OneEventPerCrossing ==
    [][RepeatedCheck =>
          \A k \in 1..Len(ThresholdIds) :
              ThresholdCheck(ThresholdIds[k], characters, edges) =>
                  Cardinality(ThresholdEvents(history', ThresholdIds[k]))
                      = Cardinality(ThresholdEvents(history, ThresholdIds[k]))]_vars

\* ------------------------------------------- further claims on SpecChoice
\* C34: after any sequence of applyChoice calls, with or without a targetId,
\* every symbolic effect target was resolved before the effect was applied:
\* every node of the relation graph is the id of an existing character, so
\* no relation is keyed by the literal names 'self' or 'target'.
C34_TargetsResolved ==
    \A n \in SeqToSet(AllNodes(edges)) :
        n \in DOMAIN characters /\ n \notin {"self", "target"}

\* C37: when a character carries out the catalogue's betray action through
\* applyChoice in front of a co-located witness who is not a participant,
\* the witness's trust toward each participant drops by 0.2 and the witness's
\* respect by 0.1 (kept in [-1, 1]) from what the choice's effects left.
C37_BetrayalWitnessed ==
    (lastCall.op = "applyChoice" /\ lastCall.applied
        /\ lastCall.event.description = "betray") =>
        \A w \in Bystanders : \A q \in Involved :
            LET g0  == lastCall.afterEffects
                old == IF <<w, q>> \in DOMAIN g0.rel THEN g0.rel[<<w, q>>]
                       ELSE DEFAULT_RELATION
            IN  /\ <<w, q>> \in DOMAIN edges.rel
                /\ edges.rel[<<w, q>>].trust = Bounded(old.trust - 20, -100, 100)
                /\ edges.rel[<<w, q>>].respect = Bounded(old.respect - 10, -100, 100)

\* ------------------------------------------------- reading the history
\* Array.prototype.slice(start): a negative start counts from the end, and
\* -0 is 0, the start of the array
slice(arr, start) ==
    LET first == IF start < 0 THEN Max(Len(arr) + start, 0) ELSE Min(start, Len(arr))
    IN  SubSeq(arr, first + 1, Len(arr))

\* WorldState.getRecentEvents(count)
getRecentEvents(hist, count) == slice(hist, -count)

\* the counts asked for: none, fewer than, as many as and more than the history holds
RecentCounts == 0..(MaxEvents + 1)

GetRecentEvents(count) ==
    /\ lastCall' = [op |-> "getRecentEvents", count |-> count,
                    events |-> getRecentEvents(history, count)]
    /\ UNCHANGED <<characters, history, edges, accumulatedChanges, narrativeFrame, turnVars>>

NextHistory ==
    \/ \E event \in WitnessedEvents : AddEvent(event)
    \/ \E forced \in ForcedEvents : ForceEvent(forced[1], forced[2])
    \/ \E count \in RecentCounts : GetRecentEvents(count)

SpecHistory == InitNarrative /\ [][NextHistory]_vars

\* C36: for every n >= 0, getRecentEvents(n) returns at most n events, the
\* n most recently appended ones in chronological order, so
\* getRecentEvents(0) returns no events.
C36_AtMostNRecentEvents ==
    lastCall.op = "getRecentEvents" =>
        /\ Len(lastCall.events) = Min(lastCall.count, Len(history))
        /\ \A i \in 1..Len(lastCall.events) :
               lastCall.events[i] = history[Len(history) - Len(lastCall.events) + i]

\* ------------------------------------------------- the multiplayer room
\* what the room's events leave alone
roomFrame ==
    <<worldVars, relVars, diseaseVars, turnVars, utilityVars, locations,
      economyVars, ecosystemVars, weatherVars, feedbackVars, player, saved, combat>>

\* createRoom(callback): the first browser opens the room
CreateRoom(p) ==
    /\ \A q \in PeerIds : peers[q].alive /\ peers[q].hostId = NoHost
                          /\ peers[q].connections = {}
    /\ peers' = [peers EXCEPT ![p].hostId = p, ![p].players = {p}, ![p].created = TRUE]
    /\ UNCHANGED <<channels, roomFrame>>

\* joinRoom(hostId): the connection opens on both sides (handleConnection)
\* and the guest sends its join
JoinRoom(p, h) ==
    /\ p # h
    /\ peers[p].alive /\ peers[p].hostId = NoHost /\ peers[p].connections = {}
    /\ peers[h].alive /\ peers[h].players # {} /\ isHost(peers, h)
    /\ peers' = [peers EXCEPT ![p].connections = @ \cup {h},
                              ![h].connections = @ \cup {p}]
    /\ channels' = Send(peers, channels, p, h, Msg("join", p, {}, NoHost))
    /\ UNCHANGED roomFrame

\* conn.on('data'): the next message of the connection from -> to arrives
Deliver(from, to) ==
    /\ peers[to].alive
    /\ from \in peers[to].connections
    /\ channels[<<from, to>>] # <<>>
    /\ LET r == handleMessage(peers, [channels EXCEPT ![<<from, to>>] = Tail(@)], to,
                              Head(channels[<<from, to>>]), from)
       IN  peers' = r.peers /\ channels' = r.channels
    /\ UNCHANGED roomFrame

\* a browser closes: its connections close, what it was sent is lost
Disconnect(p) ==
    /\ peers[p].alive
    /\ peers[p].hostId # NoHost \/ peers[p].connections # {}
    /\ peers' = [peers EXCEPT ![p].alive = FALSE]
    /\ channels' = [c \in PeerIds \X PeerIds |-> IF c[2] = p THEN <<>> ELSE channels[c]]
    /\ UNCHANGED roomFrame

\* conn.on('close') at a peer whose connection to a closed browser ends:
\* what that browser had sent and was not yet read is dropped
HandleDisconnect(me, peerId) ==
    /\ peers[me].alive
    /\ ~peers[peerId].alive
    /\ peerId \in peers[me].connections
    /\ LET r == handleDisconnect(peers, [channels EXCEPT ![<<peerId, me>>] = <<>>],
                                 me, peerId)
       IN  peers' = r.peers /\ channels' = r.channels
    /\ UNCHANGED roomFrame

NextRoom ==
    \/ \E p \in PeerIds : CreateRoom(p)
    \/ \E p, h \in PeerIds : JoinRoom(p, h)
    \/ \E from, to \in PeerIds : Deliver(from, to)
    \/ \E p \in PeerIds : Disconnect(p)
    \/ \E me, peerId \in PeerIds : HandleDisconnect(me, peerId)

SpecRoom == InitRel /\ [][NextRoom]_vars

\* ------------------------------------------------------ claims on SpecRoom
\* the peers still in the room: open browsers that are on their own player list
Remaining == {p \in PeerIds : peers[p].alive /\ p \in peers[p].players}

\* the browser that created the room has closed
HostGone == \E h \in PeerIds : peers[h].created /\ ~peers[h].alive

\* every event has been handled: no message in flight, no close pending
Settled ==
    /\ \A c \in PeerIds \X PeerIds : channels[c] = <<>>
    /\ \A me \in PeerIds : peers[me].alive =>
           \A q \in peers[me].connections : peers[q].alive

\* C38: after the host of a room disconnects, once every join, welcome,
\* player_joined and disconnect event has been handled, all remaining peers
\* have the same hostId, that id belongs to a peer still in the room, and at
\* most one peer considers itself host.
C38_OneHostAfterMigration ==
    (HostGone /\ Settled) =>
        /\ \A p, q \in Remaining : peers[p].hostId = peers[q].hostId
        /\ \A p \in Remaining : peers[p].hostId \in Remaining
        /\ Cardinality({p \in Remaining : isHost(peers, p)}) <= 1

\* ------------------------------------------------------- saving and loading
\* what saving, playing on and loading leave alone
saveFrame ==
    <<history, clusters, lastQuery, nWrites, written, utilityCall, selection, diseaseVars,
      locations, economyVars, ecosystemVars, weatherVars, turnVars, player, roomVars, combat>>

\* saveGame(slotName, turnCount, player, world): the file holds the world as
\* JSON; graph observes the relation graph at that moment
SaveGame ==
    /\ saved.count < MaxSaves
    /\ LET all == getAllCharacters(characters)
           r   == serializeRelations(edges, CharacterPairs(all, all, <<>>), <<>>)
       IN  /\ edges' = r.g
           /\ saved' = [count |-> saved.count + 1, time |-> time,
                        globalState |-> globalState, characters |-> characters,
                        relations |-> r.relations, graph |-> r.g]
    /\ lastCall' = [op |-> "saveGame"]
    /\ UNCHANGED <<time, globalState, characters, accumulatedChanges, saveFrame>>

\* loadGame(slotName) followed by restoreToWorld(saveData, world)
RestoreToWorld ==
    /\ saved.count > 0
    /\ time' = saved.time
    /\ globalState' = saved.globalState
    /\ characters' = restoreCharacters(characters, saved.characters)
    /\ edges' = restoreRelations(edges, saved.relations)
    /\ lastCall' = [op |-> "restoreToWorld"]
    /\ UNCHANGED <<saved, accumulatedChanges, saveFrame>>

\* world.advanceTime() between two player choices
PlayAdvanceTime ==
    /\ time < MaxTime
    /\ time' = time + 1
    /\ LET day == IF globalState.dayOfYear + 1 > 365 THEN 1 ELSE globalState.dayOfYear + 1
       IN  globalState' = [globalState EXCEPT !.dayOfYear = day, !.season = SeasonOf(day)]
    /\ characters' = applyEmotionDecay(characters)
    /\ lastCall' = [op |-> "advanceTime"]
    /\ UNCHANGED <<edges, saved, accumulatedChanges, saveFrame>>

\* the play between saving and loading: the player a trades with b
NextSave ==
    \/ SaveGame
    \/ ApplyChoice(BaseActions[3], "a", "b")
    \/ PlayAdvanceTime
    \/ RestoreToWorld

SpecSave == InitNarrative /\ [][NextSave]_vars

\* ------------------------------------------------------ claims on SpecSave
\* the relation from -> to in a graph, the default relation when there is none
RelationIn(g, f, t) == IF <<f, t>> \in DOMAIN g.rel THEN g.rel[<<f, t>>] ELSE DEFAULT_RELATION

\* C39: save/load is a round trip: after saving a world, playing on, loading
\* the save and calling restoreToWorld, the time, the global state, each
\* character's fields (memory included) and each relation's trust, fear and
\* debt have their values at save time.
C39_SaveLoadRoundTrip ==
    lastCall.op = "restoreToWorld" =>
        /\ time = saved.time
        /\ globalState = saved.globalState
        /\ \A c \in DOMAIN saved.characters : characters[c] = saved.characters[c]
        /\ \A f, t \in DOMAIN saved.characters :
               f # t =>
                   /\ RelationIn(edges, f, t).trust = RelationIn(saved.graph, f, t).trust
                   /\ RelationIn(edges, f, t).fear = RelationIn(saved.graph, f, t).fear
                   /\ RelationIn(edges, f, t).debt = RelationIn(saved.graph, f, t).debt

\* ---------------------------------------------------------------- a combat
\* what a combat leaves alone
combatFrame ==
    <<worldVars, relVars, diseaseVars, turnVars, utilityCall, selection, locations,
      economyVars, ecosystemVars, weatherVars, feedbackVars, player, roomVars, saved>>

\* randomRange(0.8, 1.2), in hundredths: its two ends
DamageRolls == {80, 120}

\* the CombatAction values
CombatActions == {"attack", "defend", "flee"}

\* combat.startCombat(attackerId, defenderId)
StartCombat(attackerId, defenderId) ==
    /\ combat' = startCombat(characters, attackerId, defenderId)
    /\ lastCall' = [op |-> "startCombat"]
    /\ UNCHANGED combatFrame

\* combat.executeAction(actorId, action, targetId), by any caller
ExecuteAction(actorId, action, targetId) ==
    /\ combat.currentTurn < MaxCombatTurns
    /\ \E roll \in (IF action = "attack" THEN DamageRolls ELSE {100}) :
         \E fled \in (IF action = "flee" THEN BOOLEAN ELSE {FALSE}) :
            combat' = executeAction(combat, characters, actorId, action, targetId, roll, fled)
    /\ lastCall' = [op |-> "executeAction", actorId |-> actorId,
                    current |-> getCurrentActor(combat), before |-> combat]
    /\ UNCHANGED combatFrame

NextCombat ==
    \/ \E defenderId \in {"b", "c", "ghost"} : StartCombat("a", defenderId)
    \/ \E actorId \in {"a", "b", "c"} : \E action \in CombatActions :
           \E targetId \in {NoTarget, "a"} : ExecuteAction(actorId, action, targetId)

SpecCombat == InitNarrative /\ [][NextCombat]_vars

\* ---------------------------------------------------- claims on SpecCombat
\* the hp of every combatant
HpOf(cb) == [id \in DOMAIN cb.combatants |-> cb.combatants[id].hp]

\* the latest executeAction was submitted, while the combat was active, by a
\* combatant other than the one getCurrentActor named
OutOfTurn ==
    /\ lastCall.op = "executeAction"
    /\ lastCall.before.state = "active"
    /\ lastCall.actorId \in DOMAIN lastCall.before.combatants
    /\ lastCall.actorId # lastCall.current

\* C40: while a combat is active, executeAction takes effect only for the
\* combatant whose turn it is (the id getCurrentActor returns): an action
\* submitted by a combatant out of turn changes no hp, adds no log entry and
\* leaves the turn counter alone.
C40_OnlyCurrentActorActs ==
    OutOfTurn =>
        /\ HpOf(combat) = HpOf(lastCall.before)
        /\ combat.log = lastCall.before.log
        /\ combat.currentTurn = lastCall.before.currentTurn

====
